---- MODULE Spec2Model ----
(***************************************************************************)
(* Model of the jurisdictional boundary enforcement kernel (pngen/jib):    *)
(* the base BoundaryEnforcer registries, the binding revocation set, the   *)
(* temporal boundary map, the Merkle audit tree, the provenance tracker,   *)
(* the distributed consent layer and the integrated decision pipeline      *)
(* EnforceBoundaryWithAllChecks.                                           *)
(*                                                                         *)
(* Strings are modelled as TLA+ strings and fmt.Sprintf as concatenation,  *)
(* so that two different pairs of ids that format to the same registry key *)
(* are the same key in the model, as they are in the program.  SHA-256 is  *)
(* modelled as a collision-free function of its input string.  An optional *)
(* pointer value is <<>> when nil and <<v>> when set; so is an optional     *)
(* proof returned by a call.                                               *)
(***************************************************************************)
EXTENDS Integers, Sequences, FiniteSets, TLC

(* ------------------------------------------------------------------ *)
(* Bounds of the model                                                  *)
(* ------------------------------------------------------------------ *)
\* Unix seconds run from 1 to MaxTime.
MaxTime == 2
\* At most MaxBindings bindings are stored per artifact.
MaxBindings == 2
\* At most MaxRequests calls of EnforceBoundaryWithAllChecks / CheckBoundary.
MaxRequests == 1
\* Leaves appended to a Merkle tree in one run of the tree alone.
MaxLeaves == 5
\* Calls of ProposeBoundaryDecision in one run of the consent protocol alone.
MaxProposals == 2
\* Parent edges in a provenance graph built by AddNode calls alone.
MaxEdges == 3
\* The width, in bits, given to the signed integers of timestamps handed to
\* the temporal functions (int64 in the code).
IntBits == 14
\* Read holds of one lock that are taken and never released.
MaxReadHolds == 2

(* ------------------------------------------------------------------ *)
(* Input values                                                         *)
(* ------------------------------------------------------------------ *)
\* Jurisdiction ids.  Ids are arbitrary strings; one of them holds a colon.
JIDs == {"a", "a:a"}
\* Jurisdictions that get registered.
RegisteredJIDs == {"a"}
\* Execution domains offered to RegisterExecutionDomain: id and jurisdiction.
DomainInputs == { [ID |-> "d1", JurisdictionID |-> "a"],
                  [ID |-> "d2", JurisdictionID |-> "a:a"] }
DomainIDs == {"d1", "d2"}
ArtifactIDs == {"m"}
\* Boundary rules offered to RegisterBoundary.
BoundaryInputs ==
  { [ID |-> "b1", SourceJurisdictionID |-> "a", TargetJurisdictionID |-> "a:a",
     Allowed |-> TRUE,  Reason |-> "policy"],
    [ID |-> "b2", SourceJurisdictionID |-> "a", TargetJurisdictionID |-> "a:a",
     Allowed |-> FALSE, Reason |-> "denied"],
    [ID |-> "b3", SourceJurisdictionID |-> "a", TargetJurisdictionID |-> "a",
     Allowed |-> TRUE,  Reason |-> "ambiguous"],
    [ID |-> "b4", SourceJurisdictionID |-> "a", TargetJurisdictionID |-> "a",
     Allowed |-> TRUE,  Reason |-> ""] }
\* Temporal boundaries offered to RegisterTemporalBoundary.
TemporalInputs ==
  { [ID |-> "t1", SourceJurisdictionID |-> "a", TargetJurisdictionID |-> "a:a",
     ValidFrom |-> <<>>, ValidUntil |-> <<1>>] }
\* The node's own id and the peer lists given to the constructor.
NodeID == "n1"
PeerLists == { <<"n2", "n3">>, <<"n2", "n2", "n2">> }
\* The peer lists given to NewDistributedBoundaryEnforcer: none, one, two and
\* three peers, a repeated peer, and the node's own id among its peers.
ConsentPeerLists ==
  PeerLists \cup { <<>>, <<"n2">>, <<"n1", "n2", "n3">>, <<"n2", "n3", "n4">> }
\* The decisions put to ProposeBoundaryDecision: artifact, source domain and
\* target domain.
ProposalRequests == { <<"m", "d1", "d1">>, <<"m", "d1", "d2">> }
\* The vote maps handed to HasQuorum and ComputeDecision: map[string]bool
\* over the ids of up to three nodes.
VoteMaps == UNION { [ S -> BOOLEAN ] : S \in SUBSET {"n1", "n2", "n3"} }
\* One Ed25519 key pair and one artifact hash.
PrivateKeys == {"k1"}
ArtifactHashes == {"h1"}
\* The leaf hashes handed to MerkleTree.AddLeaf directly.
LeafInputs == {"h1", "h2"}

Time == 1..MaxTime

\* The least and the greatest integer of the width, and the value an
\* arithmetic result takes in it.
MinInt == -(2 ^ (IntBits - 1))
MaxInt == 2 ^ (IntBits - 1) - 1
WrapInt(x) == ((x - MinInt) % (2 ^ IntBits)) + MinInt
\* The timestamps and the bounds handed to the temporal functions.
Timestamps == {MinInt, -1, 0, 1, 2, MaxInt - 1, MaxInt}
OptionalBounds == {<<>>} \cup { <<v>> : v \in Timestamps }
\* The windows handed to the temporal functions: valid_from and valid_until.
Windows == { [ValidFrom |-> f, ValidUntil |-> u] : f \in OptionalBounds, u \in OptionalBounds }
\* The CRDT managers that exchange state, the boundary ids they update and
\* the boundary data written.
ReplicaIDs == {"A", "B"}
BoundaryKeys == {"boundary-1", "boundary-2"}
BoundaryData == { [allowed |-> TRUE], [allowed |-> FALSE] }
\* NewCRDTManager() for each replica.
NoReplicas == [ r \in ReplicaIDs |-> [Bounds |-> <<>>, Jurisdictions |-> <<>>] ]
\* The node ids handed to NewProvenanceNode.
NodeIDs == {"node-1", "node-2", "node-3"}
\* The binding ids handed to a BindingRevocation used on its own, and the
\* timestamps its queries are made for.
RevocationIDs == {"binding-1", "binding-2"}
QueryTimes == 0..(MaxTime + 1)
\* The grace periods handed to NewGracePeriodManager, the expiries of the
\* boundaries and the timestamps handed to a GracePeriodManager (<<>>: none
\* given).
GraceInputs == {-1, 0, 1, 3600}
GraceExpiries == {<<>>, <<MinInt>>, <<0>>, <<2>>, <<3601>>}
GraceTimestamps == {<<>>, <<-3599>>, <<0>>, <<1>>, <<2>>, <<3>>, <<3601>>}

(* ------------------------------------------------------------------ *)
(* Helpers for the modelled Go values                                   *)
(* ------------------------------------------------------------------ *)
\* fmt.Sprintf("%x", sha256.Sum256(s)): never empty, collision-free.
Sha256Hex(s) == "sha256(" \o s \o ")"
\* fmt.Sprintf("%d", n)
FmtInt(n) == ToString(n)
\* fmt.Sprintf("%t", b)
FmtBool(b) == IF b THEN "true" ELSE "false"
\* fmt.Sprintf("%s:%s", a, b)
KeyOf(a, b) == a \o ":" \o b
\* a nil error
NilError == [kind |-> "nil", detail |-> ""]
Err(kind, detail) == [kind |-> kind, detail |-> detail]

VARIABLES
  now,                 \* the wall clock, Unix seconds
  Jurisdictions,       \* BoundaryEnforcer.Jurisdictions: set of registered ids
  ExecutionDomains,    \* BoundaryEnforcer.ExecutionDomains: id -> domain
  BoundArtifacts,      \* BoundaryEnforcer.BoundArtifacts: artifact id -> list of bindings
  Boundaries,          \* BoundaryEnforcer.Boundaries: "src:tgt" -> Boundary
  RevokedBindings,     \* BindingRevocation.RevokedBindings: binding id -> revocation time
  TemporalBoundaries,  \* TemporalBoundaryManager.TemporalBoundaries: id -> TemporalBoundary
  Leaves,              \* MerkleTree.Leaves
  Tree,                \* MerkleTree.Tree
  Nodes,               \* ProvenanceGraph.Nodes: id -> node
  Edges,               \* ProvenanceGraph.Edges: parent id -> list of child ids
  FlowRecords,         \* DataFlowTracker.FlowRecords
  Peers,               \* DistributedBoundaryEnforcer.Peers
  Proposals,           \* DistributedBoundaryEnforcer.Proposals: id -> proposal
  DecisionLog,         \* DistributedBoundaryEnforcer.DecisionLog
  Votes,               \* DistributedBoundaryEnforcer.Votes: proposal id -> node id -> vote
  Replicas,            \* the CRDTManagers: replica -> its Bounds and Jurisdictions maps
  ExpiryCallbacks,     \* TemporalBoundaryManager.ExpiryCallbacks: the ids with a callback
  ProofCache,          \* an LRUCache: its MaxSize, its cache map and its list ll
  rwmutex,             \* the sync.RWMutex of each component: readers, writer, waiting writers
  nanoSeq,             \* number of UnixNano readings taken (sub-second part of the clock)
  nreq,                \* number of enforcement / check calls made
  ret,                 \* what the most recent call returned
  calls                \* the decision requests of the threads: where each one is

baseVars == <<Jurisdictions, ExecutionDomains, BoundArtifacts, Boundaries>>
merkleVars == <<Leaves, Tree>>
provVars == <<Nodes, Edges, FlowRecords>>
consVars == <<Peers, Proposals, DecisionLog, Votes, nanoSeq, Replicas, ExpiryCallbacks, ProofCache, rwmutex>>
vars == <<now, baseVars, RevokedBindings, TemporalBoundaries, merkleVars,
          provVars, consVars, nreq, ret, calls>>

\* The boundaries given to TemporalBoundaryManager.RegisterBoundary before
\* their expiry is handled, and the ids HandleExpiry is called with.
RenewalPolicies == {<<>>, <<"auto">>, <<"manual">>}
ExpiryBounds == {<<>>, <<0>>, <<2>>}
ExpiryIDs == {"t1", "t2"}
ExpiryInputs ==
  { [ID |-> "t1", SourceJurisdictionID |-> "a", TargetJurisdictionID |-> "b",
     ValidFrom |-> f, ValidUntil |-> u, RenewalPolicy |-> p] :
       f \in ExpiryBounds, u \in ExpiryBounds, p \in RenewalPolicies }

\* The jurisdictions of provenance nodes and the parent lists handed to
\* NewProvenanceNode when lineage is traced: any ids, registered or not.
NodeJurisdictions == {"us", "eu"}
LineageParents ==
  {<<>>} \cup { <<p>> : p \in NodeIDs }
         \cup { pq \in NodeIDs \X NodeIDs : pq[1] # pq[2] }

\* LRU cache inputs: the sizes given to NewLRUCache (0 and -1 ask for the
\* default), the keys and the values put.
CacheSizes == {-1, 0, 1, 2, 3}
CacheKeys == {"key1", "key2", "key3", "key4"}
CacheValues == {"value1", "value2"}

(* ------------------------------------------------------------------ *)
(* Cryptographic bindings (core/types.go)                               *)
(* ------------------------------------------------------------------ *)
\* privateKey.Public()
PublicOf(privateKey) == "pub(" \o privateKey \o ")"
\* ed25519.Sign: the signature names the signing key and the signed message.
Ed25519Sign(privateKey, msg) == <<"sig", PublicOf(privateKey), msg>>
\* ed25519.Verify: true only for the signature made over msg under publicKey.
Ed25519Verify(publicKey, msg, sig) == sig = <<"sig", publicKey, msg>>

\* CryptographicBinding.CanonicalForm: JSON of the five signed fields, keys sorted.
CanonicalForm(cb) ==
  "{artifact_hash:" \o cb.ArtifactHash \o ",artifact_id:" \o cb.ArtifactID
    \o ",binding_type:" \o cb.BindingType \o ",jurisdiction_id:" \o cb.JurisdictionID
    \o ",timestamp:" \o FmtInt(cb.Timestamp) \o "}"

\* CryptographicBinding.Verify
Verify(cb) ==
  IF cb.PublicKey = <<>> \/ Len(cb.Signature) = 0
    THEN FALSE
    ELSE Ed25519Verify(cb.PublicKey[1], CanonicalForm(cb), cb.Signature)

\* CryptographicBinding.Hash
BindingHash(cb) == Sha256Hex(CanonicalForm(cb))

\* The binding that BindArtifactToJurisdiction constructs and signs.
NewBinding(artifactID, jurisdictionID, privateKey, artifactHash, bindingType, timestamp) ==
  LET unsigned ==
        [ID             |-> Sha256Hex(artifactID \o ":" \o jurisdictionID \o ":" \o FmtInt(timestamp)),
         ArtifactID     |-> artifactID,
         JurisdictionID |-> jurisdictionID,
         BindingType    |-> bindingType,
         PublicKey      |-> <<PublicOf(privateKey)>>,
         Signature      |-> <<>>,
         ArtifactHash   |-> artifactHash,
         Timestamp      |-> timestamp]
  IN [unsigned EXCEPT !.Signature = Ed25519Sign(privateKey, CanonicalForm(unsigned))]

\* bindings, exists := BoundArtifacts[artifactID]
BindingsOf(artifactID) ==
  IF artifactID \in DOMAIN BoundArtifacts THEN BoundArtifacts[artifactID] ELSE <<>>

(* ------------------------------------------------------------------ *)
(* Revocation set (core/error_handling.go)                              *)
(* ------------------------------------------------------------------ *)
\* IsRevoked taking a binding as revoked only after its revocation time.
IsRevokedAfter(bindingID, timestamp) ==
  IF bindingID \notin DOMAIN RevokedBindings
    THEN FALSE
    ELSE RevokedBindings[bindingID] < timestamp

\* BindingRevocation.IsRevoked
IsRevoked(bindingID, timestamp) ==
  IF bindingID \notin DOMAIN RevokedBindings
    THEN FALSE
    ELSE RevokedBindings[bindingID] <= timestamp

(* ------------------------------------------------------------------ *)
(* Temporal boundaries (unnamed/part_006)                               *)
(* ------------------------------------------------------------------ *)
\* IsValidAt reading valid_from only.
IsValidAtNoExpiry(tb, timestamp) ==
  IF tb.ValidFrom # <<>> /\ timestamp < tb.ValidFrom[1] THEN FALSE
  ELSE TRUE

\* IsValidAt with the expiry itself outside the window.
IsValidAtBeforeExpiry(tb, timestamp) ==
  IF tb.ValidFrom # <<>> /\ timestamp < tb.ValidFrom[1] THEN FALSE
  ELSE IF tb.ValidUntil # <<>> /\ timestamp >= tb.ValidUntil[1] THEN FALSE
  ELSE TRUE

\* TemporalBoundary.IsValidAt
IsValidAt(tb, timestamp) ==
  IF tb.ValidFrom # <<>> /\ timestamp < tb.ValidFrom[1] THEN FALSE
  ELSE IF tb.ValidUntil # <<>> /\ timestamp > tb.ValidUntil[1] THEN FALSE
  ELSE TRUE

\* NewGracePeriodManager: the DefaultGracePeriod of the manager.
NewGracePeriodManager(defaultGracePeriod) ==
  IF defaultGracePeriod <= 0 THEN 3600 ELSE defaultGracePeriod

\* GracePeriodManager.IsInGracePeriod for a manager with the given
\* DefaultGracePeriod; ts is the timestamp given or the clock.
IsInGracePeriod(DefaultGracePeriod, boundary, ts) ==
  IF boundary.ValidUntil = <<>>
    THEN FALSE
    ELSE LET graceStart == WrapInt(boundary.ValidUntil[1] - DefaultGracePeriod)
         IN graceStart <= ts /\ ts <= boundary.ValidUntil[1]

\* GracePeriodManager.GetRemainingTime
GetRemainingTime(boundary, ts) ==
  IF boundary.ValidUntil = <<>>
    THEN -1
    ELSE LET remaining == WrapInt(boundary.ValidUntil[1] - ts)
         IN IF remaining < 0 THEN 0 ELSE remaining

\* ResearchGradeBoundaryEnforcer.checkTemporalValidity
checkTemporalValidity(boundaryKey, timestamp) ==
  LET temporalBoundaries ==
        { id \in DOMAIN TemporalBoundaries :
            KeyOf(TemporalBoundaries[id].SourceJurisdictionID,
                  TemporalBoundaries[id].TargetJurisdictionID) = boundaryKey }
  IN IF temporalBoundaries = {}
       THEN TRUE
       ELSE \E id \in temporalBoundaries : IsValidAt(TemporalBoundaries[id], timestamp)

(* ------------------------------------------------------------------ *)
(* Invariant checker (unnamed/part_007)                                 *)
(* ------------------------------------------------------------------ *)
\* InvariantChecker.CheckNoUnboundExecution: TRUE when it returns an error.
CheckNoUnboundExecution(artifactID) ==
  artifactID \notin DOMAIN BoundArtifacts \/ Len(BoundArtifacts[artifactID]) = 0

\* InvariantChecker.CheckExplicitBoundaries: TRUE when it returns an error.
CheckExplicitBoundaries(sourceJID, targetJID) ==
  IF sourceJID # targetJID
    THEN KeyOf(sourceJID, targetJID) \notin DOMAIN Boundaries
    ELSE FALSE

\* InvariantChecker.CheckFailClosedAmbiguity: TRUE when it returns an error.
CheckFailClosedAmbiguity(decision, reason) ==
  (reason = "ambiguous" \/ reason = "unclear") /\ decision

\* CheckAuditability without the test of the reason.
CheckAuditabilityNoReason(proof) ==
  \/ proof.ID = ""
  \/ proof.ArtifactID = ""
  \/ proof.JurisdictionID = ""
  \/ proof.Timestamp <= 0

\* InvariantChecker.CheckAuditability: TRUE when it returns an error.
CheckAuditability(proof) ==
  \/ proof.ID = ""
  \/ proof.ArtifactID = ""
  \/ proof.JurisdictionID = ""
  \/ proof.Reason = ""
  \/ proof.Timestamp <= 0

(* ------------------------------------------------------------------ *)
(* Merkle audit tree (core/error_handling.go)                           *)
(* ------------------------------------------------------------------ *)
\* NextLevel with an unpaired last node carried up as it is.
NextLevelCarryOdd(currentLevel) ==
  [ k \in 1..((Len(currentLevel) + 1) \div 2) |->
      IF 2 * k <= Len(currentLevel)
        THEN Sha256Hex(currentLevel[2 * k - 1] \o currentLevel[2 * k])
        ELSE currentLevel[2 * k - 1] ]

\* One pass of the inner loop of rebuildTree: the level above currentLevel.
NextLevel(currentLevel) ==
  [ k \in 1..((Len(currentLevel) + 1) \div 2) |->
      LET left  == currentLevel[2 * k - 1]
          right == IF 2 * k <= Len(currentLevel) THEN currentLevel[2 * k] ELSE left
      IN Sha256Hex(left \o right) ]

\* The levels rebuildTree appends above currentLevel, up to the root.
RECURSIVE UpperLevels(_)
UpperLevels(currentLevel) ==
  IF Len(currentLevel) > 1
    THEN <<NextLevel(currentLevel)>> \o UpperLevels(NextLevel(currentLevel))
    ELSE <<>>

\* MerkleTree.rebuildTree: the levels are appended to the levels already stored.
rebuildTree(leaves, tree) ==
  IF Len(leaves) = 0
    THEN <<>>
    ELSE (tree \o <<leaves>>) \o UpperLevels(leaves)

\* MerkleTree.AddLeaf: the leaves and the tree after the call.
AddLeaf(leaves, tree, leafHash) ==
  [Leaves |-> Append(leaves, leafHash),
   Tree   |-> rebuildTree(Append(leaves, leafHash), tree)]

\* MerkleTree.GetRoot
GetRoot(tree) ==
  IF Len(tree) = 0 THEN ""
  ELSE IF Len(tree[Len(tree)]) = 0 THEN ""
  ELSE tree[Len(tree)][1]

\* The loop of GetProof from level i of the stored tree (counted from 1)
\* upward, for the node index currentIndex (counted from 0).
RECURSIVE ProofFrom(_, _, _)
ProofFrom(tree, i, currentIndex) ==
  IF i > Len(tree) - 1
    THEN <<>>
    ELSE LET level == tree[i]
             siblingIndex == IF currentIndex % 2 = 0 THEN currentIndex + 1
                             ELSE currentIndex - 1
         IN (IF siblingIndex < Len(level) THEN <<level[siblingIndex + 1]>> ELSE <<>>)
              \o ProofFrom(tree, i + 1, currentIndex \div 2)

\* MerkleTree.GetProof, leafIndex counted from 0.
GetProof(leaves, tree, leafIndex) ==
  IF Len(tree) = 0 \/ leafIndex >= Len(leaves)
    THEN <<>>
    ELSE ProofFrom(tree, 1, leafIndex)

(* ------------------------------------------------------------------ *)
(* Provenance tracker (core/provenance_tracking.go)                     *)
(* ------------------------------------------------------------------ *)
\* The edges after the loop of AddNode over the first k parents of node.
RECURSIVE AddEdges(_, _, _)
AddEdges(edges, node, k) ==
  IF k = 0 THEN edges
  ELSE LET before   == AddEdges(edges, node, k - 1)
           parentID == node.ParentNodes[k]
           children == IF parentID \in DOMAIN before THEN before[parentID] ELSE <<>>
       IN (parentID :> Append(children, node.ID)) @@ before

\* ProvenanceGraph.AddNode: the nodes and edges after the call.
AddNode(nodes, edges, node) ==
  [Nodes |-> (node.ID :> node) @@ nodes,
   Edges |-> AddEdges(edges, node, Len(node.ParentNodes))]

\* NewProvenanceNode
NewProvenanceNode(id, artifactID, operation, jurisdictionID, timestamp, parentNodes) ==
  [ID |-> id, ArtifactID |-> artifactID, Operation |-> operation,
   JurisdictionID |-> jurisdictionID, Timestamp |-> timestamp,
   ParentNodes |-> parentNodes, Metadata |-> <<>>]

\* pg.Edges[nodeID]: the children listed for a node, none for a missing key.
ChildrenOf(edges, nodeID) ==
  IF nodeID \in DOMAIN edges THEN edges[nodeID] ELSE <<>>

\* The closure dfs of ValidateAcyclicity and its loop over the children of a
\* node from the k-th on: whether no cycle was met, and the visited set.
\* recStack is the set of nodes whose flag is set.
RECURSIVE dfs(_, _, _, _, _)
RECURSIVE dfsChildren(_, _, _, _, _, _)
dfs(nodes, edges, nodeID, visited, recStack) ==
  IF nodeID \notin DOMAIN nodes THEN [ok |-> TRUE, visited |-> visited]
  ELSE IF nodeID \in recStack THEN [ok |-> FALSE, visited |-> visited]
  ELSE IF nodeID \in visited THEN [ok |-> TRUE, visited |-> visited]
  ELSE dfsChildren(nodes, edges, nodeID, 1, visited \cup {nodeID}, recStack \cup {nodeID})

dfsChildren(nodes, edges, nodeID, k, visited, recStack) ==
  IF k > Len(ChildrenOf(edges, nodeID))
    THEN [ok |-> TRUE, visited |-> visited]
    ELSE LET child == dfs(nodes, edges, ChildrenOf(edges, nodeID)[k], visited, recStack)
         IN IF ~child.ok
              THEN child
              ELSE dfsChildren(nodes, edges, nodeID, k + 1, child.visited, recStack)

\* The loop of ValidateAcyclicity over the nodes not yet taken; the order of
\* a map range is not fixed, and the result is the same in every order.
RECURSIVE ValidateFrom(_, _, _, _)
ValidateFrom(nodes, edges, rest, visited) ==
  IF rest = {} THEN TRUE
  ELSE LET nodeID == CHOOSE n \in rest : TRUE
       IN IF nodeID \in visited
            THEN ValidateFrom(nodes, edges, rest \ {nodeID}, visited)
            ELSE LET walked == dfs(nodes, edges, nodeID, visited, {})
                 IN IF ~walked.ok THEN FALSE
                    ELSE ValidateFrom(nodes, edges, rest \ {nodeID}, walked.visited)

\* ProvenanceGraph.ValidateAcyclicity
ValidateAcyclicity(nodes, edges) == ValidateFrom(nodes, edges, DOMAIN nodes, {})

\* The closure dfs of TraceLineage and its loop over the parents of a node:
\* acc carries the lineage and the visited set the closure shares.
RECURSIVE traceDfs(_, _, _)
RECURSIVE traceParents(_, _, _, _)
traceDfs(nodes, currentID, acc) ==
  IF currentID \in acc.visited THEN acc
  ELSE LET marked == [acc EXCEPT !.visited = @ \cup {currentID}]
       IN IF currentID \in DOMAIN nodes
          THEN traceParents(nodes, nodes[currentID].ParentNodes, 1,
                            [marked EXCEPT !.lineage = Append(@, nodes[currentID])])
          ELSE marked

traceParents(nodes, parents, k, acc) ==
  IF k > Len(parents) THEN acc
  ELSE traceParents(nodes, parents, k + 1, traceDfs(nodes, parents[k], acc))

\* A lineage without the node it was asked for.
TraceLineageAncestorsOnly(nodes, nodeID) ==
  LET lineage == traceDfs(nodes, nodeID, [lineage |-> <<>>, visited |-> {}]).lineage
  IN IF lineage = <<>> THEN <<>> ELSE Tail(lineage)

\* ProvenanceGraph.TraceLineage: the lineage returned.  The read hold taken
\* at line 73 is not released.
TraceLineage(nodes, nodeID) ==
  traceDfs(nodes, nodeID, [lineage |-> <<>>, visited |-> {}]).lineage

\* The loop of FindBoundaryCrossings from place i of the lineage down to 2.
RECURSIVE crossingsFrom(_, _)
crossingsFrom(lineage, i) ==
  IF i < 2 THEN <<>>
  ELSE LET from == lineage[i]
           to == lineage[i - 1]
       IN (IF from.JurisdictionID # to.JurisdictionID
           THEN << <<from.JurisdictionID, to.JurisdictionID>> >> ELSE <<>>)
          \o crossingsFrom(lineage, i - 1)

\* ProvenanceGraph.FindBoundaryCrossings
FindBoundaryCrossings(nodes, nodeID) ==
  LET lineage == TraceLineage(nodes, nodeID)
  IN crossingsFrom(lineage, Len(lineage))

\* DataFlowTracker.RecordDataFlow with timestamp = nil: ts is the clock reading.
RecordDataFlow(st, artifactID, operation, sourceJurisdiction, targetJurisdiction, ts) ==
  LET nodeID == Sha256Hex(artifactID \o ":" \o operation \o ":" \o sourceJurisdiction
                          \o ":" \o targetJurisdiction \o ":" \o FmtInt(ts))
      node == [ID             |-> nodeID,
               ArtifactID     |-> artifactID,
               Operation      |-> operation,
               JurisdictionID |-> sourceJurisdiction,
               Timestamp      |-> ts,
               ParentNodes    |-> <<>>,
               Metadata       |-> [target_jurisdiction |-> targetJurisdiction,
                                   flow_type |-> "cross_boundary"]]
      graph == AddNode(st.Nodes, st.Edges, node)
      flowRecord == [node_id             |-> nodeID,
                     artifact_id         |-> artifactID,
                     operation           |-> operation,
                     source_jurisdiction |-> sourceJurisdiction,
                     target_jurisdiction |-> targetJurisdiction,
                     timestamp           |-> ts,
                     cross_boundary      |-> sourceJurisdiction # targetJurisdiction]
  IN [st EXCEPT !.Nodes = graph.Nodes,
                !.Edges = graph.Edges,
                !.FlowRecords = Append(st.FlowRecords, flowRecord)]

(* ------------------------------------------------------------------ *)
(* Distributed consent (unnamed/part_005)                               *)
(* ------------------------------------------------------------------ *)
\* time.Now().UnixNano() rendered with %d: the second, then nine digits of
\* nanoseconds.  Successive readings differ: the n-th reading of a run has
\* sub-second part n.
FmtUnixNano(seconds, n) == FmtInt(seconds) \o "00000000" \o FmtInt(n)

\* DistributedBoundaryEnforcer.createProposal
createProposal(artifactID, sourceDomainID, targetDomainID, nano, tsNano, tsProposal) ==
  [ProposalID       |-> Sha256Hex(NodeID \o ":" \o artifactID \o ":" \o sourceDomainID \o ":"
                                  \o targetDomainID \o ":" \o FmtUnixNano(tsNano, nano)),
   ArtifactID       |-> artifactID,
   SourceDomainID   |-> sourceDomainID,
   TargetDomainID   |-> targetDomainID,
   ProposedDecision |-> FALSE,
   ProposerNodeID   |-> NodeID,
   Timestamp        |-> tsProposal]

\* DistributedBoundaryEnforcer.collectVotes: a map from node id to vote.
collectVotes(peers) ==
  [ n \in {peers[i] : i \in 1..Len(peers)} \cup {NodeID} |-> TRUE ]

\* HasQuorum counting the approving votes only.
HasQuorumApproving(peers, votes) ==
  LET totalNodes == Len(peers) + 1
      f          == (totalNodes - 1) \div 3
      quorum     == 2 * f + 1
  IN Cardinality({ n \in DOMAIN votes : votes[n] }) >= quorum

\* DistributedBoundaryEnforcer.HasQuorum
HasQuorum(peers, votes) ==
  LET totalNodes == Len(peers) + 1
      f          == (totalNodes - 1) \div 3
      quorum     == 2 * f + 1
  IN Cardinality(DOMAIN votes) >= quorum

\* ComputeDecision by majority of the collected votes.
ComputeDecisionMajority(votes) ==
  IF Cardinality(DOMAIN votes) = 0
    THEN FALSE
    ELSE 2 * Cardinality({ n \in DOMAIN votes : votes[n] }) > Cardinality(DOMAIN votes)

\* DistributedBoundaryEnforcer.ComputeDecision
ComputeDecision(votes) ==
  IF Cardinality(DOMAIN votes) = 0
    THEN FALSE
    ELSE \A n \in DOMAIN votes : votes[n]

\* ProposeBoundaryDecision writing a log entry on the abort path as well.
ProposeBoundaryDecisionLogsAbort(st, artifactID, sourceDomainID, targetDomainID, tsNano, tsProposal, tsLog) ==
  LET proposal == createProposal(artifactID, sourceDomainID, targetDomainID,
                                 st.nanoSeq, tsNano, tsProposal)
      proposed == [st EXCEPT !.Proposals = (proposal.ProposalID :> proposal) @@ st.Proposals,
                             !.nanoSeq = st.nanoSeq + 1]
      votes    == collectVotes(Peers)
  IN IF HasQuorum(Peers, votes)
       THEN LET decision == ComputeDecision(votes)
            IN [st |-> [proposed EXCEPT !.DecisionLog =
                          Append(proposed.DecisionLog,
                                 [proposal_id   |-> proposal.ProposalID,
                                  artifact_id   |-> artifactID,
                                  source_domain |-> sourceDomainID,
                                  target_domain |-> targetDomainID,
                                  decision      |-> decision,
                                  timestamp     |-> tsLog])],
                decision |-> decision,
                sent |-> <<"proposal", "commit">>,
                proposal |-> proposal, votes |-> votes]
       ELSE [st |-> [proposed EXCEPT !.DecisionLog =
                       Append(proposed.DecisionLog,
                              [proposal_id   |-> proposal.ProposalID,
                               artifact_id   |-> artifactID,
                               source_domain |-> sourceDomainID,
                               target_domain |-> targetDomainID,
                               decision      |-> FALSE,
                               timestamp     |-> tsLog])],
             decision |-> FALSE, sent |-> <<"proposal", "abort">>,
             proposal |-> proposal, votes |-> votes]

\* DistributedBoundaryEnforcer.ProposeBoundaryDecision: the store after the
\* call, the decision returned (the error returned is always nil), the
\* broadcasts made, in their order, the proposal created and the votes
\* collected.
ProposeBoundaryDecision(st, artifactID, sourceDomainID, targetDomainID, tsNano, tsProposal, tsLog) ==
  LET proposal == createProposal(artifactID, sourceDomainID, targetDomainID,
                                 st.nanoSeq, tsNano, tsProposal)
      proposed == [st EXCEPT !.Proposals = (proposal.ProposalID :> proposal) @@ st.Proposals,
                             !.nanoSeq = st.nanoSeq + 1]
      votes    == collectVotes(Peers)
  IN IF HasQuorum(Peers, votes)
       THEN LET decision == ComputeDecision(votes)
            IN [st |-> [proposed EXCEPT !.DecisionLog =
                          Append(proposed.DecisionLog,
                                 [proposal_id   |-> proposal.ProposalID,
                                  artifact_id   |-> artifactID,
                                  source_domain |-> sourceDomainID,
                                  target_domain |-> targetDomainID,
                                  decision      |-> decision,
                                  timestamp     |-> tsLog])],
                decision |-> decision,
                sent |-> <<"proposal", "commit">>,
                proposal |-> proposal, votes |-> votes]
       ELSE [st |-> proposed, decision |-> FALSE, sent |-> <<"proposal", "abort">>,
             proposal |-> proposal, votes |-> votes]

(* ------------------------------------------------------------------ *)
(* CRDT manager (unnamed/part_005, lines 308-350)                       *)
(* ------------------------------------------------------------------ *)
\* for k, v := range src { dst[k] = v }
CopyInto(dst, src) ==
  [ k \in DOMAIN dst \cup DOMAIN src |-> IF k \in DOMAIN src THEN src[k] ELSE dst[k] ]

\* CRDTManager.MergeState: the receiver after the call.
MergeState(crdt, other) ==
  [Bounds        |-> CopyInto(crdt.Bounds, other.Bounds),
   Jurisdictions |-> CopyInto(crdt.Jurisdictions, other.Jurisdictions)]

\* CRDTManager.UpdateBoundary: the manager after the call.
UpdateBoundary(crdt, boundaryID, boundaryData) ==
  [crdt EXCEPT !.Bounds = (boundaryID :> boundaryData) @@ crdt.Bounds]

(* ------------------------------------------------------------------ *)
(* Base enforcer (tests/research_grade_enforcer_test.go, lines 97-293)  *)
(* ------------------------------------------------------------------ *)
\* BoundaryEnforcer.ResolveJurisdictionForArtifact
ResolveJurisdictionForArtifact(artifactID) ==
  IF artifactID \notin DOMAIN BoundArtifacts
    THEN <<>>
    ELSE [ i \in 1..Len(BoundArtifacts[artifactID]) |->
             BoundArtifacts[artifactID][i].JurisdictionID ]

\* BoundaryProof.Hash
ProofHash(bp) ==
  Sha256Hex(bp.ID \o ":" \o bp.ArtifactID \o ":" \o bp.SourceDomainID \o ":"
            \o bp.TargetDomainID \o ":" \o FmtBool(bp.Allowed) \o ":" \o FmtInt(bp.Timestamp))

\* BoundaryDecision with the missing rule read as a permission.
BoundaryDecisionDefaultAllow(boundaryKey) ==
  IF boundaryKey \in DOMAIN Boundaries
    THEN [allowed |-> Boundaries[boundaryKey].Allowed,
          reason  |-> Boundaries[boundaryKey].Reason]
    ELSE [allowed |-> TRUE, reason |-> "No explicit boundary rule defined"]

\* Lines 250-262 of CheckBoundary: the rule stored under boundaryKey decides;
\* without one the decision is a denial.
BoundaryDecision(boundaryKey) ==
  IF boundaryKey \in DOMAIN Boundaries
    THEN [allowed |-> Boundaries[boundaryKey].Allowed,
          reason  |-> Boundaries[boundaryKey].Reason]
    ELSE [allowed |-> FALSE, reason |-> "No explicit boundary rule defined"]

\* CheckBoundary without the search for a binding to the source domain's
\* jurisdiction.
CheckBoundaryAnyBinding(artifactID, sourceDomainID, targetDomainID, ts) ==
  IF sourceDomainID \notin DOMAIN ExecutionDomains \/ targetDomainID \notin DOMAIN ExecutionDomains
    THEN [err |-> Err("JurisdictionalViolation",
                      "artifact " \o artifactID \o " not bound to source jurisdiction " \o sourceDomainID),
          proof |-> <<>>]
    ELSE
      LET sourceDomain == ExecutionDomains[sourceDomainID]
          targetDomain == ExecutionDomains[targetDomainID]
          boundaryKey == KeyOf(sourceDomain.JurisdictionID, targetDomain.JurisdictionID)
      IN [err |-> NilError,
          proof |-> << [ID             |-> Sha256Hex(artifactID \o ":" \o sourceDomainID
                                                     \o ":" \o targetDomainID),
                        ArtifactID     |-> artifactID,
                        SourceDomainID |-> sourceDomainID,
                        TargetDomainID |-> targetDomainID,
                        JurisdictionID |-> sourceDomain.JurisdictionID,
                        Allowed        |-> BoundaryDecision(boundaryKey).allowed,
                        Reason         |-> BoundaryDecision(boundaryKey).reason,
                        Timestamp      |-> ts,
                        Evidence       |-> <<>>] >>]

\* BoundaryEnforcer.CheckBoundary: the error and the proof returned; ts is the
\* clock reading that becomes the proof's timestamp.
CheckBoundary(artifactID, sourceDomainID, targetDomainID, ts) ==
  IF sourceDomainID \notin DOMAIN ExecutionDomains \/ targetDomainID \notin DOMAIN ExecutionDomains
    THEN [err |-> Err("JurisdictionalViolation",
                      "artifact " \o artifactID \o " not bound to source jurisdiction " \o sourceDomainID),
          proof |-> <<>>]
    ELSE
      LET sourceDomain == ExecutionDomains[sourceDomainID]
          targetDomain == ExecutionDomains[targetDomainID]
          artifactJurisdictions == ResolveJurisdictionForArtifact(artifactID)
          found == \E i \in 1..Len(artifactJurisdictions) :
                      artifactJurisdictions[i] = sourceDomain.JurisdictionID
          boundaryKey == KeyOf(sourceDomain.JurisdictionID, targetDomain.JurisdictionID)
          allowed == BoundaryDecision(boundaryKey).allowed
          reason == BoundaryDecision(boundaryKey).reason
      IN IF ~found
           THEN [err |-> Err("JurisdictionalViolation",
                             "artifact " \o artifactID \o " not bound to source jurisdiction "
                               \o sourceDomain.JurisdictionID),
                 proof |-> <<>>]
           ELSE [err |-> NilError,
                 proof |-> << [ID             |-> Sha256Hex(artifactID \o ":" \o sourceDomainID
                                                            \o ":" \o targetDomainID),
                               ArtifactID     |-> artifactID,
                               SourceDomainID |-> sourceDomainID,
                               TargetDomainID |-> targetDomainID,
                               JurisdictionID |-> sourceDomain.JurisdictionID,
                               Allowed        |-> allowed,
                               Reason         |-> reason,
                               Timestamp      |-> ts,
                               Evidence       |-> <<>>] >>]

\* BoundaryEnforcer.EnforceBoundary: the error returned.
EnforceBoundary(artifactID, sourceDomainID, targetDomainID, ts) ==
  LET checked == CheckBoundary(artifactID, sourceDomainID, targetDomainID, ts)
  IN IF checked.err # NilError THEN checked.err
     ELSE IF ~checked.proof[1].Allowed
       THEN Err("JurisdictionalViolation",
                "cross-domain execution denied: " \o checked.proof[1].Reason)
     ELSE NilError

(* ------------------------------------------------------------------ *)
(* Integrated enforcer (core/research_grade_enforcer.go)                *)
(* ------------------------------------------------------------------ *)
\* A call reads the clock at several places.  rd[p] is the reading taken at
\* place p; the readings of one call never decrease.
RevPoint(i) == i                        \* IsRevoked(binding i, time.Now().Unix())
TemporalPoint == MaxBindings + 1        \* currentTime := time.Now().Unix()
NanoPoint == MaxBindings + 2            \* createProposal: time.Now().UnixNano()
ProposalPoint == MaxBindings + 3        \* createProposal: Timestamp
LogPoint == MaxBindings + 4             \* ProposeBoundaryDecision: decision log timestamp
FlowPoint == MaxBindings + 5            \* RecordDataFlow: ts
ProofPoint == MaxBindings + 6           \* CheckBoundary: proof Timestamp
NumReads == MaxBindings + 6

\* The non-decreasing readings a call entered at time t0 can take: j[v] is the
\* first place at which the clock shows v or more.
ClockReadings(t0) ==
  { [ p \in 1..NumReads |-> t0 + Cardinality({ v \in (t0 + 1)..MaxTime : j[v] <= p }) ] :
      j \in { k \in [ (t0 + 1)..MaxTime -> 1..(NumReads + 1) ] :
                \A v, w \in (t0 + 1)..MaxTime : v <= w => k[v] <= k[w] } }

\* The state the pipeline mutates after its pure checks.
Store ==
  [Proposals |-> Proposals, DecisionLog |-> DecisionLog, nanoSeq |-> nanoSeq,
   Nodes |-> Nodes, Edges |-> Edges, FlowRecords |-> FlowRecords,
   Leaves |-> Leaves, Tree |-> Tree]

\* return nil, err
Fail(err, st, clock) == [err |-> err, proof |-> <<>>, st |-> st, clock |-> clock]

\* A return of the proof that appends no leaf.
StepReturnUnlogged(st, proof, rd) ==
  [err |-> NilError, proof |-> <<proof>>, st |-> st, clock |-> rd[ProofPoint]]

\* Lines 120-122: rge.MerkleTree.AddLeaf(proof.Hash()); return proof, nil
StepMerkleAppend(st, proof, rd) ==
  LET merkle == AddLeaf(st.Leaves, st.Tree, ProofHash(proof))
  IN [err |-> NilError, proof |-> <<proof>>,
      st |-> [st EXCEPT !.Leaves = merkle.Leaves, !.Tree = merkle.Tree],
      clock |-> rd[ProofPoint]]

\* Lines 116-118: invariant I5 over the proof
StepAuditability(st, proof, rd) ==
  IF CheckAuditability(proof)
    THEN Fail(Err("InvariantViolation", "invariant violated: I5"), st, rd[ProofPoint])
    ELSE StepMerkleAppend(st, proof, rd)

\* Lines 111-114: the base CheckBoundary
StepCheckBoundary(st, artifactID, sourceDomainID, targetDomainID, rd) ==
  LET checked == CheckBoundary(artifactID, sourceDomainID, targetDomainID, rd[ProofPoint])
  IN IF checked.err # NilError
       THEN Fail(checked.err, st, rd[FlowPoint])
       ELSE StepAuditability(st, checked.proof[1], rd)

\* Lines 104-109: provenance recording
StepRecordDataFlow(st, artifactID, sourceDomainID, targetDomainID, rd) ==
  StepCheckBoundary(
    RecordDataFlow(st, artifactID, "boundary_check",
                   ExecutionDomains[sourceDomainID].JurisdictionID,
                   ExecutionDomains[targetDomainID].JurisdictionID,
                   rd[FlowPoint]),
    artifactID, sourceDomainID, targetDomainID, rd)

\* Lines 95-102: distributed consent
StepConsensus(st, artifactID, sourceDomainID, targetDomainID, rd) ==
  LET proposed == ProposeBoundaryDecision(st, artifactID, sourceDomainID, targetDomainID,
                                          rd[NanoPoint], rd[ProposalPoint], rd[LogPoint])
  IN IF ~proposed.decision
       THEN Fail(Err("ConsensusFailure", "distributed consensus denied boundary crossing"),
                 proposed.st, rd[LogPoint])
       ELSE StepRecordDataFlow(proposed.st, artifactID, sourceDomainID, targetDomainID, rd)

\* StepExplicitBoundaries with invariant I2 skipped.
StepExplicitBoundariesSkipped(st, artifactID, sourceDomainID, targetDomainID, rd) ==
  StepConsensus(st, artifactID, sourceDomainID, targetDomainID, rd)

\* Lines 90-93: invariant I2
StepExplicitBoundaries(st, artifactID, sourceDomainID, targetDomainID, rd) ==
  IF CheckExplicitBoundaries(ExecutionDomains[sourceDomainID].JurisdictionID,
                             ExecutionDomains[targetDomainID].JurisdictionID)
    THEN Fail(Err("InvariantViolation", "invariant violated: I2"), st, rd[TemporalPoint])
    ELSE StepConsensus(st, artifactID, sourceDomainID, targetDomainID, rd)

\* Lines 85-88: invariant I1
StepNoUnboundExecution(st, artifactID, sourceDomainID, targetDomainID, rd) ==
  IF CheckNoUnboundExecution(artifactID)
    THEN Fail(Err("InvariantViolation", "invariant violated: I1"), st, rd[TemporalPoint])
    ELSE StepExplicitBoundaries(st, artifactID, sourceDomainID, targetDomainID, rd)

\* Lines 78-83: the temporal check
StepTemporal(st, artifactID, sourceDomainID, targetDomainID, rd) ==
  LET boundaryKey == KeyOf(ExecutionDomains[sourceDomainID].JurisdictionID,
                           ExecutionDomains[targetDomainID].JurisdictionID)
      currentTime == rd[TemporalPoint]
  IN IF ~checkTemporalValidity(boundaryKey, currentTime)
       THEN Fail(Err("TemporalConstraintViolation",
                     "no valid temporal boundary for " \o boundaryKey
                       \o " at timestamp " \o FmtInt(currentTime)),
                 st, currentTime)
       ELSE StepNoUnboundExecution(st, artifactID, sourceDomainID, targetDomainID, rd)

\* Lines 65-76: domain resolution
StepResolveDomains(st, artifactID, sourceDomainID, targetDomainID, rd, clock) ==
  IF sourceDomainID \notin DOMAIN ExecutionDomains \/ targetDomainID \notin DOMAIN ExecutionDomains
    THEN Fail(Err("JurisdictionalViolation",
                  "artifact " \o artifactID \o " not bound to source jurisdiction " \o sourceDomainID),
              st, clock)
    ELSE StepTemporal(st, artifactID, sourceDomainID, targetDomainID, rd)

\* BindingFails without the revocation lookup.
BindingFailsUnrevoked(binding, i, rd) ==
  ~Verify(binding)

\* Line 56 and line 60: what the loop body finds wrong with binding i.
BindingFails(binding, i, rd) ==
  \/ ~Verify(binding)
  \/ IsRevoked(binding.ID, rd[RevPoint(i)])

\* Lines 55-63: the loop over the bindings
StepVerifyBindings(st, artifactID, sourceDomainID, targetDomainID, rd) ==
  LET bindings == BindingsOf(artifactID)
      failing  == { i \in 1..Len(bindings) : BindingFails(bindings[i], i, rd) }
  IN IF failing # {}
       THEN LET first == CHOOSE i \in failing : \A k \in failing : i <= k
            IN Fail(Err("BindingIntegrityViolation",
                        "binding integrity violated for " \o bindings[first].ID),
                    st, IF Verify(bindings[first]) THEN rd[RevPoint(first)] ELSE now)
       ELSE StepResolveDomains(st, artifactID, sourceDomainID, targetDomainID, rd,
                               IF Len(bindings) = 0 THEN now ELSE rd[RevPoint(Len(bindings))])

\* StepLoadBindings without the test for a missing or empty list.
StepLoadBindingsUnchecked(st, artifactID, sourceDomainID, targetDomainID, rd) ==
  StepVerifyBindings(st, artifactID, sourceDomainID, targetDomainID, rd)

\* Lines 48-53: the bindings of the artifact are loaded
StepLoadBindings(st, artifactID, sourceDomainID, targetDomainID, rd) ==
  IF artifactID \notin DOMAIN BoundArtifacts \/ Len(BindingsOf(artifactID)) = 0
    THEN Fail(Err("InvalidJurisdictionBinding", "no bindings found for " \o artifactID), st, now)
    ELSE StepVerifyBindings(st, artifactID, sourceDomainID, targetDomainID, rd)

\* ResearchGradeBoundaryEnforcer.EnforceBoundaryWithAllChecks: what the call
\* returns and the state it leaves, for the clock readings rd.
EnforceOutcome(artifactID, sourceDomainID, targetDomainID, rd) ==
  StepLoadBindings(Store, artifactID, sourceDomainID, targetDomainID, rd)

(* ------------------------------------------------------------------ *)
(* The state machine                                                    *)
(* ------------------------------------------------------------------ *)
\* The state before any call.
EmptyStore ==
  [Proposals |-> <<>>, DecisionLog |-> <<>>, nanoSeq |-> 0,
   Nodes |-> <<>>, Edges |-> <<>>, FlowRecords |-> <<>>,
   Leaves |-> <<>>, Tree |-> <<>>]

\* What a call returned: the operation, its three string arguments, the
\* error (NilError for none) and the proof (<<>> for none); with it, the time
\* at which the call was entered and the logs as they were then.
Returned(op, args, err, proof, at, before) ==
  [op |-> op, args |-> args, err |-> err, proof |-> proof, at |-> at, before |-> before]
\* The return of an operation that returns nothing.
Void == Returned("void", <<"", "", "">>, NilError, <<>>, 0, EmptyStore)

\* The threads that make decision requests side by side.
Threads == {"t1", "t2"}

\* A thread that is in no call of EnforceBoundaryWithAllChecks.
IdleCall ==
  [pc |-> "idle", args |-> <<"", "", "">>, verified |-> <<>>, used |-> <<>>,
   seen |-> <<>>, err |-> NilError, proof |-> <<>>, logIndex |-> 0, leafIndex |-> 0]

(* ------------------------------------------------------------------ *)
(* Expiry handling (unnamed/part_006, lines 117-156)                    *)
(* ------------------------------------------------------------------ *)
\* tbm.attemptRenewal(boundary): nothing when valid_until is unset; else the
\* window is moved to start at the clock, keeping its duration (3600 seconds
\* when valid_from is unset).
attemptRenewal(boundary, clock) ==
  IF boundary.ValidUntil = <<>> THEN boundary
  ELSE LET duration == IF boundary.ValidFrom # <<>> /\ boundary.ValidUntil # <<>>
                       THEN WrapInt(boundary.ValidUntil[1] - boundary.ValidFrom[1])
                       ELSE 3600
       IN [boundary EXCEPT !.ValidFrom = <<clock>>,
                           !.ValidUntil = <<WrapInt(clock + duration)>>]

\* tbm.HandleExpiry(boundaryID): the boundaries after the call and the number
\* of times the callback was called.  An unknown id returns at once.
HandleExpiry(boundaries, callbacks, boundaryID, clock) ==
  IF boundaryID \notin DOMAIN boundaries
  THEN [TemporalBoundaries |-> boundaries, called |-> 0]
  ELSE LET boundary == boundaries[boundaryID]
           renewed == IF boundary.RenewalPolicy = <<"auto">>
                      THEN attemptRenewal(boundary, clock) ELSE boundary
       IN [TemporalBoundaries |-> [boundaries EXCEPT ![boundaryID] = renewed],
           called |-> IF boundaryID \in callbacks THEN 1 ELSE 0]

(* ------------------------------------------------------------------ *)
(* LRUCache (unnamed/part_004, lines 11-85)                             *)
(* ------------------------------------------------------------------ *)
\* NewLRUCache(maxsize): a size of zero or less is replaced by 1000.  The
\* list ll holds the entries, most recently used first; the map cache
\* leads from a key to its list element, named here by the element's key.
NewLRUCache(maxsize) ==
  [MaxSize |-> IF maxsize <= 0 THEN 1000 ELSE maxsize, cache |-> <<>>, ll |-> <<>>]

\* list.MoveToFront(elem) for the element carrying key.
MoveToFront(ll, key) ==
  SelectSeq(ll, LAMBDA e : e.key = key) \o SelectSeq(ll, LAMBDA e : e.key # key)

\* list.Remove(ll.Back()).
RemoveBack(ll) == SubSeq(ll, 1, Len(ll) - 1)

\* The value carried by the list element of key.
ValueOf(ll, key) == SelectSeq(ll, LAMBDA e : e.key = key)[1].value

\* lru.Get(key): the cache after the call and the value returned (nil is
\* the empty tuple).
Get(lru, key) ==
  IF key \in DOMAIN lru.cache
  THEN [lru |-> [lru EXCEPT !.ll = MoveToFront(@, lru.cache[key])],
        value |-> <<ValueOf(lru.ll, lru.cache[key])>>]
  ELSE [lru |-> lru, value |-> <<>>]

\* A Put that evicts the entry at the front of the list.
PutEvictsFront(lru, key, value) ==
  IF key \in DOMAIN lru.cache
  THEN [lru EXCEPT !.ll = <<[key |-> key, value |-> value]>>
                           \o SelectSeq(lru.ll, LAMBDA e : e.key # lru.cache[key])]
  ELSE LET full == Len(lru.ll) >= lru.MaxSize /\ Len(lru.ll) > 0
           kept == IF full THEN Tail(lru.ll) ELSE lru.ll
           keys == IF full THEN DOMAIN lru.cache \ {lru.ll[1].key}
                           ELSE DOMAIN lru.cache
       IN [lru EXCEPT !.ll = <<[key |-> key, value |-> value]>> \o kept,
                      !.cache = (key :> key) @@ [k \in keys |-> lru.cache[k]]]

\* lru.Put(key, value): an existing key is moved to the front and its value
\* replaced; otherwise the back of a full list is evicted from the list and
\* the map, and the new entry is pushed at the front.
Put(lru, key, value) ==
  IF key \in DOMAIN lru.cache
  THEN [lru EXCEPT !.ll = <<[key |-> lru.cache[key], value |-> value]>>
                           \o SelectSeq(lru.ll, LAMBDA e : e.key # lru.cache[key])]
  ELSE LET full == Len(lru.ll) >= lru.MaxSize /\ Len(lru.ll) > 0
           kept == IF full THEN RemoveBack(lru.ll) ELSE lru.ll
           keys == IF full THEN DOMAIN lru.cache \ {lru.ll[Len(lru.ll)].key}
                           ELSE DOMAIN lru.cache
       IN [lru EXCEPT !.ll = <<[key |-> key, value |-> value]>> \o kept,
                      !.cache = (key :> key) @@ [k \in keys |-> lru.cache[k]]]

\* lru.Size().
Size(lru) == Len(lru.ll)

\* lru.Clear().
Clear(lru) == [lru EXCEPT !.cache = <<>>, !.ll = <<>>]

\* sync.RWMutex of the enforcer, of the provenance graph, of the base enforcer
\* and of each CRDT manager: the number of read holds (a thread may hold it more than
\* once; a hold may outlive the call that took it), the thread holding it
\* for writing, and the threads that have called Lock and wait.
Mutexes == {"rge.mutex", "pg.mutex", "be.mu", "A.mutex", "B.mutex"}
FreeMutex == [readers |-> 0, writer |-> <<>>, waiting |-> {}]
NoLocks == [m \in Mutexes |-> FreeMutex]

\* A run of the model ends with its MaxRequests-th decision request.
Serving == nreq < MaxRequests

\* NewResearchGradeBoundaryEnforcer(NodeID, peers): empty registries and logs.
Init ==
  /\ now = 1
  /\ Jurisdictions = {}
  /\ ExecutionDomains = <<>>
  /\ BoundArtifacts = <<>>
  /\ Boundaries = <<>>
  /\ RevokedBindings = <<>>
  /\ TemporalBoundaries = <<>>
  /\ Leaves = <<>>
  /\ Tree = <<>>
  /\ Nodes = <<>>
  /\ Edges = <<>>
  /\ FlowRecords = <<>>
  /\ Peers \in PeerLists
  /\ Proposals = <<>>
  /\ DecisionLog = <<>>
  /\ Votes = <<>>
  /\ Replicas = NoReplicas
  /\ ExpiryCallbacks = {}
  /\ ProofCache = NewLRUCache(0)
  /\ rwmutex = NoLocks
  /\ nanoSeq = 0
  /\ nreq = 0
  /\ ret = Void
  /\ calls = [t \in Threads |-> IdleCall]

\* The clock advances by a second.
Tick ==
  /\ Serving
  /\ now < MaxTime
  /\ now' = now + 1
  /\ UNCHANGED <<baseVars, RevokedBindings, TemporalBoundaries, merkleVars,
                 provVars, consVars, nreq, ret, calls>>

\* BoundaryEnforcer.RegisterJurisdiction
RegisterJurisdiction(jurisdictionID) ==
  /\ Serving
  /\ Jurisdictions' = Jurisdictions \cup {jurisdictionID}
  /\ ret' = Void
  /\ UNCHANGED <<now, ExecutionDomains, BoundArtifacts, Boundaries, RevokedBindings,
                 TemporalBoundaries, merkleVars, provVars, consVars, nreq, calls>>

\* BoundaryEnforcer.RegisterExecutionDomain
RegisterExecutionDomain(domain) ==
  /\ Serving
  /\ ExecutionDomains' = (domain.ID :> domain) @@ ExecutionDomains
  /\ ret' = Void
  /\ UNCHANGED <<now, Jurisdictions, BoundArtifacts, Boundaries, RevokedBindings,
                 TemporalBoundaries, merkleVars, provVars, consVars, nreq, calls>>

\* BoundaryEnforcer.RegisterBoundary
RegisterBoundary(boundary) ==
  /\ Serving
  /\ Boundaries' = (KeyOf(boundary.SourceJurisdictionID, boundary.TargetJurisdictionID)
                      :> boundary) @@ Boundaries
  /\ ret' = Void
  /\ UNCHANGED <<now, Jurisdictions, ExecutionDomains, BoundArtifacts, RevokedBindings,
                 TemporalBoundaries, merkleVars, provVars, consVars, nreq, calls>>

\* BindArtifactToJurisdiction storing the new binding in place of the
\* artifact's earlier ones.
BindArtifactToJurisdictionReplacing(artifactID, jurisdictionID, privateKey, artifactHash, bindingType) ==
  IF jurisdictionID \notin Jurisdictions
    THEN [err |-> Err("InvalidJurisdictionBinding",
                      "jurisdiction " \o jurisdictionID \o " not registered"),
          binding |-> <<>>,
          BoundArtifacts |-> BoundArtifacts]
    ELSE LET binding == NewBinding(artifactID, jurisdictionID, privateKey, artifactHash,
                                   bindingType, now)
         IN [err |-> NilError,
             binding |-> <<binding>>,
             BoundArtifacts |-> (artifactID :> <<binding>>) @@ BoundArtifacts]

\* BoundaryEnforcer.BindArtifactToJurisdiction: the error returned and the
\* binding store after the call.
BindArtifactToJurisdiction(artifactID, jurisdictionID, privateKey, artifactHash, bindingType) ==
  IF jurisdictionID \notin Jurisdictions
    THEN [err |-> Err("InvalidJurisdictionBinding",
                      "jurisdiction " \o jurisdictionID \o " not registered"),
          binding |-> <<>>,
          BoundArtifacts |-> BoundArtifacts]
    ELSE LET binding == NewBinding(artifactID, jurisdictionID, privateKey, artifactHash,
                                   bindingType, now)
         IN [err |-> NilError,
             binding |-> <<binding>>,
             BoundArtifacts |-> (artifactID :> Append(BindingsOf(artifactID), binding))
                                  @@ BoundArtifacts]

\* ResearchGradeBoundaryEnforcer.BindArtifactWithCrypto
BindArtifactWithCrypto(artifactID, jurisdictionID, privateKey, artifactHash) ==
  /\ Serving
  /\ Len(BindingsOf(artifactID)) < MaxBindings
  /\ LET bound == BindArtifactToJurisdiction(artifactID, jurisdictionID, privateKey,
                                             artifactHash, "static")
     IN /\ BoundArtifacts' = bound.BoundArtifacts
        /\ IF bound.err # NilError
             THEN UNCHANGED merkleVars
             ELSE LET merkle == AddLeaf(Leaves, Tree, BindingHash(bound.binding[1]))
                  IN Leaves' = merkle.Leaves /\ Tree' = merkle.Tree
        /\ ret' = Returned("BindArtifactWithCrypto", <<artifactID, jurisdictionID, "">>,
                           bound.err, <<>>, now, Store)
  /\ UNCHANGED <<now, Jurisdictions, ExecutionDomains, Boundaries, RevokedBindings,
                 TemporalBoundaries, provVars, consVars, nreq, calls>>

\* A caller stores a list of its own under BoundArtifacts[artifactID], as the
\* integration tests do: the stored list with the signature of binding i
\* replaced by other bytes.
StoreBindings(artifactID, i) ==
  /\ Serving
  /\ artifactID \in DOMAIN BoundArtifacts
  /\ i \in 1..Len(BoundArtifacts[artifactID])
  /\ BoundArtifacts' =
       [BoundArtifacts EXCEPT ![artifactID][i].Signature = <<"INVALID_SIGNATURE">>]
  /\ ret' = Void
  /\ UNCHANGED <<now, Jurisdictions, ExecutionDomains, Boundaries, RevokedBindings,
                 TemporalBoundaries, merkleVars, provVars, consVars, nreq, calls>>

\* The ids of the stored bindings.
BindingIDs ==
  { BoundArtifacts[a][i].ID : <<a, i>> \in
      { <<a, i>> \in (DOMAIN BoundArtifacts) \X (1..MaxBindings) : i <= Len(BoundArtifacts[a]) } }

\* BindingRevocation.RevokeBinding
BindingRevocationRevokeBinding(bindingID, timestamp) ==
  /\ Serving
  /\ RevokedBindings' = (bindingID :> timestamp) @@ RevokedBindings
  /\ ret' = Void
  /\ UNCHANGED <<now, baseVars, TemporalBoundaries, merkleVars, provVars, consVars, nreq, calls>>

\* ResearchGradeBoundaryEnforcer.RevokeBinding
RevokeBinding(bindingID) ==
  BindingRevocationRevokeBinding(bindingID, now)

\* ResearchGradeBoundaryEnforcer.RegisterTemporalBoundary
RegisterTemporalBoundary(boundary) ==
  /\ Serving
  /\ TemporalBoundaries' = (boundary.ID :> boundary) @@ TemporalBoundaries
  /\ ret' = Void
  /\ UNCHANGED <<now, baseVars, RevokedBindings, merkleVars, provVars, consVars, nreq, calls>>

\* A call of ResearchGradeBoundaryEnforcer.EnforceBoundaryWithAllChecks
EnforceBoundaryWithAllChecks(artifactID, sourceDomainID, targetDomainID) ==
  /\ Serving
  /\ \E rd \in ClockReadings(now) :
       LET out == EnforceOutcome(artifactID, sourceDomainID, targetDomainID, rd)
       IN /\ now' = out.clock
          /\ Proposals' = out.st.Proposals
          /\ DecisionLog' = out.st.DecisionLog
          /\ nanoSeq' = out.st.nanoSeq
          /\ Nodes' = out.st.Nodes
          /\ Edges' = out.st.Edges
          /\ FlowRecords' = out.st.FlowRecords
          /\ Leaves' = out.st.Leaves
          /\ Tree' = out.st.Tree
          /\ ret' = Returned("EnforceBoundaryWithAllChecks",
                             <<artifactID, sourceDomainID, targetDomainID>>,
                             out.err, out.proof, now, Store)
  /\ nreq' = nreq + 1
  /\ UNCHANGED <<baseVars, RevokedBindings, TemporalBoundaries, Peers, Votes, Replicas, ExpiryCallbacks, ProofCache, rwmutex, calls>>

Next ==
  \/ Tick
  \/ \E j \in RegisteredJIDs : RegisterJurisdiction(j)
  \/ \E d \in DomainInputs : RegisterExecutionDomain(d)
  \/ \E b \in BoundaryInputs : RegisterBoundary(b)
  \/ \E a \in ArtifactIDs, j \in JIDs, k \in PrivateKeys, h \in ArtifactHashes :
       BindArtifactWithCrypto(a, j, k, h)
  \/ \E a \in ArtifactIDs, i \in 1..MaxBindings : StoreBindings(a, i)
  \/ \E id \in BindingIDs, t \in Time : BindingRevocationRevokeBinding(id, t)
  \/ \E id \in BindingIDs : RevokeBinding(id)
  \/ \E tb \in TemporalInputs : RegisterTemporalBoundary(tb)
  \/ \E a \in ArtifactIDs, s \in DomainIDs, t \in DomainIDs :
       EnforceBoundaryWithAllChecks(a, s, t)

Spec == Init /\ [][Next]_vars

(* ------------------------------------------------------------------ *)
(* The Merkle tree used on its own (core/error_handling.go, 219-301)    *)
(* ------------------------------------------------------------------ *)
\* MerkleTree.AddLeaf called by a holder of the tree.
MerkleAddLeaf(leafHash) ==
  /\ Len(Leaves) < MaxLeaves
  /\ LET merkle == AddLeaf(Leaves, Tree, leafHash)
     IN Leaves' = merkle.Leaves /\ Tree' = merkle.Tree
  /\ ret' = Void
  /\ UNCHANGED <<now, baseVars, RevokedBindings, TemporalBoundaries, provVars,
                 consVars, nreq, calls>>

NextMerkle == \E h \in LeafInputs : MerkleAddLeaf(h)

SpecMerkle == Init /\ [][NextMerkle]_vars

(* ------------------------------------------------------------------ *)
(* The base enforcer used on its own                                    *)
(* (tests/research_grade_enforcer_test.go, lines 97-293)                *)
(* ------------------------------------------------------------------ *)
\* The registries of the base enforcer.
Registries ==
  [Jurisdictions |-> Jurisdictions, ExecutionDomains |-> ExecutionDomains,
   BoundArtifacts |-> BoundArtifacts, Boundaries |-> Boundaries]

\* A call of CheckBoundary(artifactID, sourceDomainID, targetDomainID): it
\* holds the read lock and writes nothing.
CheckBoundaryCall(artifactID, sourceDomainID, targetDomainID) ==
  /\ LET checked == CheckBoundary(artifactID, sourceDomainID, targetDomainID, now)
     IN ret' = [op |-> "CheckBoundary",
                args |-> <<artifactID, sourceDomainID, targetDomainID>>,
                err |-> checked.err, proof |-> checked.proof, at |-> now,
                before |-> Registries]
  /\ UNCHANGED <<now, baseVars, RevokedBindings, TemporalBoundaries, merkleVars,
                 provVars, consVars, nreq, calls>>

\* A call of EnforceBoundary(artifactID, sourceDomainID, targetDomainID).
EnforceBoundaryCall(artifactID, sourceDomainID, targetDomainID) ==
  /\ ret' = [op |-> "EnforceBoundary",
             args |-> <<artifactID, sourceDomainID, targetDomainID>>,
             err |-> EnforceBoundary(artifactID, sourceDomainID, targetDomainID, now),
             proof |-> <<>>, at |-> now, before |-> Registries]
  /\ UNCHANGED <<now, baseVars, RevokedBindings, TemporalBoundaries, merkleVars,
                 provVars, consVars, nreq, calls>>

NextBase ==
  \/ Tick
  \/ \E j \in RegisteredJIDs : RegisterJurisdiction(j)
  \/ \E d \in DomainInputs : RegisterExecutionDomain(d)
  \/ \E b \in BoundaryInputs : RegisterBoundary(b)
  \/ \E a \in ArtifactIDs, j \in JIDs, k \in PrivateKeys, h \in ArtifactHashes :
       BindArtifactWithCrypto(a, j, k, h)
  \/ \E a \in ArtifactIDs, s \in DomainIDs, t \in DomainIDs : CheckBoundaryCall(a, s, t)
  \/ \E a \in ArtifactIDs, s \in DomainIDs, t \in DomainIDs : EnforceBoundaryCall(a, s, t)

SpecBase == Init /\ [][NextBase]_vars

(* ------------------------------------------------------------------ *)
(* The temporal functions used on their own (unnamed/part_006)          *)
(* ------------------------------------------------------------------ *)
\* What is left alone by a call of a function that writes nothing.
pureFrame ==
  <<now, baseVars, RevokedBindings, TemporalBoundaries, merkleVars, provVars, consVars,
    nreq, calls>>

\* A call of tb.IsValidAt(timestamp), and of tb.IsValidAt(timestamp + 1) the
\* caller makes next.
IsValidAtCall(tb, timestamp) ==
  /\ ret' = [op |-> "IsValidAt", tb |-> tb, timestamp |-> timestamp,
             result |-> IsValidAt(tb, timestamp),
             next |-> IsValidAt(tb, WrapInt(timestamp + 1))]
  /\ UNCHANGED pureFrame

\* NewGracePeriodManager(g) followed by IsInGracePeriod(boundary, timestamp)
\* and GetRemainingTime(boundary, timestamp) on the manager.
GracePeriodCall(g, boundary, timestamp) ==
  /\ LET gpm == NewGracePeriodManager(g)
         ts == IF timestamp # <<>> THEN timestamp[1] ELSE now
     IN ret' = [op |-> "GracePeriod", g |-> g, tb |-> boundary, timestamp |-> ts,
                result |-> IsInGracePeriod(gpm, boundary, ts),
                remaining |-> GetRemainingTime(boundary, ts)]
  /\ UNCHANGED pureFrame

NextTemporal ==
  \/ \E tb \in Windows, t \in Timestamps : IsValidAtCall(tb, t)
  \/ \E g \in GraceInputs, u \in GraceExpiries, t \in GraceTimestamps :
        GracePeriodCall(g, [ValidFrom |-> <<>>, ValidUntil |-> u], t)

SpecTemporal == Init /\ [][NextTemporal]_vars

(* ------------------------------------------------------------------ *)
(* The revocation set used on its own (core/error_handling.go, 346-370) *)
(* ------------------------------------------------------------------ *)
\* A call of IsRevoked(bindingID, timestamp).
IsRevokedCall(bindingID, timestamp) ==
  /\ ret' = [op |-> "IsRevoked", id |-> bindingID, timestamp |-> timestamp,
             result |-> IsRevoked(bindingID, timestamp)]
  /\ UNCHANGED pureFrame

NextRevocation ==
  \/ Tick
  \/ \E id \in RevocationIDs, t \in Time : BindingRevocationRevokeBinding(id, t)
  \/ \E id \in RevocationIDs : RevokeBinding(id)
  \/ \E id \in RevocationIDs, t \in QueryTimes : IsRevokedCall(id, t)

SpecRevocation == Init /\ [][NextRevocation]_vars

(* ------------------------------------------------------------------ *)
(* The provenance graph used on its own (core/provenance_tracking.go)   *)
(* ------------------------------------------------------------------ *)
\* The number of parent edges stored.
RECURSIVE EdgeCount(_)
EdgeCount(edges) ==
  IF DOMAIN edges = {} THEN 0
  ELSE LET p == CHOOSE q \in DOMAIN edges : TRUE
       IN Len(edges[p]) + EdgeCount([ q \in DOMAIN edges \ {p} |-> edges[q] ])

\* The parent lists a caller may give: ids of nodes added earlier.
ParentLists(nodes) ==
  {<<>>} \cup { <<p>> : p \in DOMAIN nodes }
         \cup { <<p, q>> : <<p, q>> \in { pq \in (DOMAIN nodes) \X (DOMAIN nodes) : pq[1] # pq[2] } }

\* graph.AddNode(NewProvenanceNode(id, ..., parentNodes, nil)) followed by
\* graph.ValidateAcyclicity().
GraphAddNode(id, parentNodes) ==
  /\ EdgeCount(Edges) + Len(parentNodes) <= MaxEdges
  /\ LET node == NewProvenanceNode(id, "model-x", "transform", "us-ca", now, parentNodes)
         graph == AddNode(Nodes, Edges, node)
     IN /\ Nodes' = graph.Nodes
        /\ Edges' = graph.Edges
        /\ ret' = [op |-> "AddNode", node |-> node,
                   reused |-> id \in DOMAIN Nodes,
                   valid |-> ValidateAcyclicity(graph.Nodes, graph.Edges)]
  /\ UNCHANGED <<now, baseVars, RevokedBindings, TemporalBoundaries, merkleVars,
                 FlowRecords, consVars, nreq, calls>>

NextProvenance ==
  \E id \in NodeIDs : \E parentNodes \in ParentLists(Nodes) : GraphAddNode(id, parentNodes)

SpecProvenance == Init /\ [][NextProvenance]_vars

(* ------------------------------------------------------------------ *)
(* Lineage queries on a provenance graph (provenance_tracking.go 57-112) *)
(* ------------------------------------------------------------------ *)
lineageFrame ==
  <<now, baseVars, RevokedBindings, TemporalBoundaries, merkleVars, FlowRecords,
    Peers, Proposals, DecisionLog, Votes, nanoSeq, Replicas, ExpiryCallbacks, ProofCache,
    nreq, calls>>

\* pg.mutex.RLock() at line 73 with no RUnlock: one more read hold.
ReadHeld(mutexes, m) == [mutexes EXCEPT ![m].readers = @ + 1]

\* pg.mutex.Lock() returns only when nobody holds the lock.
LockFree(mutexes, m) == mutexes[m].readers = 0 /\ mutexes[m].writer = <<>>

\* graph.AddNode(NewProvenanceNode(id, ..., jurisdictionID, ..., parentNodes, nil))
LineageAddNode(id, jurisdictionID, parentNodes) ==
  /\ LockFree(rwmutex, "pg.mutex")
  /\ EdgeCount(Edges) + Len(parentNodes) <= MaxEdges
  /\ LET node == NewProvenanceNode(id, "model-x", "transform", jurisdictionID, now, parentNodes)
         graph == AddNode(Nodes, Edges, node)
     IN /\ Nodes' = graph.Nodes
        /\ Edges' = graph.Edges
        /\ ret' = [op |-> "AddNode", id |-> id, lineage |-> <<>>, crossings |-> <<>>]
  /\ UNCHANGED <<lineageFrame, rwmutex>>

\* graph.TraceLineage(id)
TraceLineageCall(id) ==
  /\ rwmutex["pg.mutex"].readers < MaxReadHolds
  /\ rwmutex' = ReadHeld(rwmutex, "pg.mutex")
  /\ ret' = [op |-> "TraceLineage", id |-> id, lineage |-> TraceLineage(Nodes, id),
             crossings |-> <<>>]
  /\ UNCHANGED <<lineageFrame, provVars>>

\* graph.FindBoundaryCrossings(id)
FindBoundaryCrossingsCall(id) ==
  /\ rwmutex["pg.mutex"].readers < MaxReadHolds
  /\ rwmutex' = ReadHeld(rwmutex, "pg.mutex")
  /\ ret' = [op |-> "FindBoundaryCrossings", id |-> id, lineage |-> TraceLineage(Nodes, id),
             crossings |-> FindBoundaryCrossings(Nodes, id)]
  /\ UNCHANGED <<lineageFrame, provVars>>

NextLineage ==
  \/ \E id \in NodeIDs, j \in NodeJurisdictions, parentNodes \in LineageParents :
        LineageAddNode(id, j, parentNodes)
  \/ \E id \in NodeIDs : TraceLineageCall(id)
  \/ \E id \in NodeIDs : FindBoundaryCrossingsCall(id)

SpecLineage == Init /\ [][NextLineage]_vars

(* ------------------------------------------------------------------ *)
(* Locks held while the shared structures are read and written          *)
(* ------------------------------------------------------------------ *)
\* An access: the structure touched, "r" or "w", and the locks the thread
\* holds while it touches it, each with the mode it is held in.
Access(structure, mode, locks) == [structure |-> structure, mode |-> mode, locks |-> locks]

\* EnforceBoundaryWithAllChecks: rge.mutex is held exclusively throughout.
\* Line 48 and lines 65-66 read the base enforcer's maps directly, line 60
\* calls IsRevoked, line 128 ranges over the temporal map; the invariant
\* checks and CheckBoundary take be.mu for reading; ProposeBoundaryDecision
\* takes dbe.mutex and AddLeaf takes mt.mu.
EnforceAccesses ==
  << Access("registries", "r", {<<"rge.mutex", "w">>}),
     Access("revocations", "r", {<<"rge.mutex", "w">>}),
     Access("temporal", "r", {<<"rge.mutex", "w">>}),
     Access("registries", "r", {<<"rge.mutex", "w">>, <<"be.mu", "r">>}),
     Access("decisionlog", "w", {<<"rge.mutex", "w">>, <<"dbe.mutex", "w">>}),
     Access("merkle", "w", {<<"rge.mutex", "w">>, <<"mt.mu", "w">>}) >>

\* BindArtifactWithCrypto: BindArtifactToJurisdiction under be.mu, then
\* AddLeaf under mt.mu.
BindAccesses ==
  << Access("registries", "w", {<<"be.mu", "w">>}),
     Access("merkle", "w", {<<"mt.mu", "w">>}) >>

\* RegisterJurisdiction, RegisterExecutionDomain, RegisterBoundary.
RegisterAccesses == << Access("registries", "w", {<<"be.mu", "w">>}) >>

\* RevokeBinding of the enforcer and of BindingRevocation: no lock is taken.
RevokeAccesses == << Access("revocations", "w", {}) >>

\* BindingRevocation.IsRevoked called by a holder of the set: no lock.
IsRevokedAccesses == << Access("revocations", "r", {}) >>

\* RegisterTemporalBoundary: TemporalBoundaryManager.RegisterBoundary.
RegisterTemporalAccesses == << Access("temporal", "w", {<<"tbm.mutex", "w">>}) >>

\* MerkleTree.GetProof: no lock is taken.
GetProofAccesses == << Access("merkle", "r", {}) >>

\* GetMerkleRoot: MerkleTree.GetRoot under mt.mu for reading.
GetRootAccesses == << Access("merkle", "r", {<<"mt.mu", "r">>}) >>

\* GetDecisionLog under dbe.mutex for reading.
GetDecisionLogAccesses == << Access("decisionlog", "r", {<<"dbe.mutex", "r">>}) >>

\* The operations a thread may call and the accesses each makes, in order.
Operations ==
  [EnforceBoundaryWithAllChecks |-> EnforceAccesses,
   BindArtifactWithCrypto       |-> BindAccesses,
   RegisterBoundary             |-> RegisterAccesses,
   RevokeBinding                |-> RevokeAccesses,
   IsRevoked                    |-> IsRevokedAccesses,
   RegisterTemporalBoundary     |-> RegisterTemporalAccesses,
   GetProof                     |-> GetProofAccesses,
   GetMerkleRoot                |-> GetRootAccesses,
   GetDecisionLog               |-> GetDecisionLogAccesses]

\* A thread in no call.
NoCall == [op |-> "none", pc |-> 0]

\* The access a busy thread is making.
CurrentAccess(th) == Operations[calls[th].op][calls[th].pc]

\* The locks a thread holds.
Holds(th) == IF calls[th].pc = 0 THEN {} ELSE CurrentAccess(th).locks

\* sync.RWMutex: the locks wanted can be held by th next to what the other
\* threads hold; a lock is shared only between readers.
CanHold(th, wanted) ==
  \A u \in Threads \ {th} :
     \A w \in wanted, h \in Holds(u) :
        w[1] = h[1] => (w[2] = "r" /\ h[2] = "r")

lockFrame ==
  <<now, baseVars, RevokedBindings, TemporalBoundaries, merkleVars, provVars, consVars,
    nreq, ret>>

\* A thread enters an operation and reaches its first access.
BeginCall(th, op) ==
  /\ calls[th].pc = 0
  /\ CanHold(th, Operations[op][1].locks)
  /\ calls' = [calls EXCEPT ![th] = [op |-> op, pc |-> 1]]
  /\ UNCHANGED lockFrame

\* A thread goes on to the next access of its operation.
NextAccess(th) ==
  /\ calls[th].pc > 0
  /\ calls[th].pc < Len(Operations[calls[th].op])
  /\ CanHold(th, Operations[calls[th].op][calls[th].pc + 1].locks)
  /\ calls' = [calls EXCEPT ![th].pc = @ + 1]
  /\ UNCHANGED lockFrame

\* A thread returns, after its last access or with an error before it, and
\* releases what it holds.
ReturnCall(th) ==
  /\ calls[th].pc > 0
  /\ calls' = [calls EXCEPT ![th] = NoCall]
  /\ UNCHANGED lockFrame

InitLocks ==
  /\ now = 1
  /\ Jurisdictions = {}
  /\ ExecutionDomains = <<>>
  /\ BoundArtifacts = <<>>
  /\ Boundaries = <<>>
  /\ RevokedBindings = <<>>
  /\ TemporalBoundaries = <<>>
  /\ Leaves = <<>>
  /\ Tree = <<>>
  /\ Nodes = <<>>
  /\ Edges = <<>>
  /\ FlowRecords = <<>>
  /\ Peers \in PeerLists
  /\ Proposals = <<>>
  /\ DecisionLog = <<>>
  /\ Votes = <<>>
  /\ Replicas = NoReplicas
  /\ ExpiryCallbacks = {}
  /\ ProofCache = NewLRUCache(0)
  /\ rwmutex = NoLocks
  /\ nanoSeq = 0
  /\ nreq = 0
  /\ ret = Void
  /\ calls = [t \in Threads |-> NoCall]

NextLocks ==
  \E th \in Threads :
     \/ \E op \in DOMAIN Operations : BeginCall(th, op)
     \/ NextAccess(th)
     \/ ReturnCall(th)

SpecLocks == InitLocks /\ [][NextLocks]_vars

(* ------------------------------------------------------------------ *)
(* Calls waiting for reader/writer locks                                *)
(* ------------------------------------------------------------------ *)
\* The lock calls each operation makes, in order.  A deferred unlock runs
\* when the operation returns, the latest deferred first.
\* TraceLineage (provenance_tracking.go:72-94), and FindBoundaryCrossings,
\* CheckTaintPropagation and GetJurisdictionSummary through it: RLock,
\* no RUnlock.
TraceLineageLocks == << <<"RLock", "pg.mutex">> >>

\* AddNode (provenance_tracking.go:58-69).
AddNodeLocks == << <<"Lock", "pg.mutex">>, <<"Unlock", "pg.mutex">> >>

\* CheckBoundary (research_grade_enforcer_test.go:209-276) with both domains
\* registered: RLock, then ResolveJurisdictionForArtifact (193-206) takes
\* RLock again and releases it.
CheckBoundaryLocks ==
  << <<"RLock", "be.mu">>, <<"RLock", "be.mu">>, <<"RUnlock", "be.mu">>,
     <<"RUnlock", "be.mu">> >>

\* RegisterJurisdiction, RegisterExecutionDomain, RegisterBoundary and
\* BindArtifactToJurisdiction (research_grade_enforcer_test.go:127-189).
RegisterLocks == << <<"Lock", "be.mu">>, <<"Unlock", "be.mu">> >>

\* EnforceBoundaryWithAllChecks on its way to a proof
\* (research_grade_enforcer.go:45-122): rge.mutex throughout, AddNode inside
\* RecordDataFlow, then CheckBoundary.
EnforceLocks ==
  << <<"Lock", "rge.mutex">> >> \o AddNodeLocks \o CheckBoundaryLocks
     \o << <<"Unlock", "rge.mutex">> >>

\* crdt.MergeState(other) (part_005:338-350).
MergeStateLocks(crdt, other) ==
  << <<"Lock", crdt>>, <<"RLock", other>>, <<"RUnlock", other>>, <<"Unlock", crdt>> >>

LockPrograms ==
  [TraceLineage                 |-> TraceLineageLocks,
   AddNode                      |-> AddNodeLocks,
   CheckBoundary                |-> CheckBoundaryLocks,
   RegisterBoundary             |-> RegisterLocks,
   EnforceBoundaryWithAllChecks |-> EnforceLocks,
   MergeStateAB                 |-> MergeStateLocks("A.mutex", "B.mutex"),
   MergeStateBA                 |-> MergeStateLocks("B.mutex", "A.mutex"),
   MergeStateAA                 |-> MergeStateLocks("A.mutex", "A.mutex")]

\* sync.RWMutex.RLock returns when no writer holds the lock and none waits
\* for it.
RLockReturns(mu) == mu.writer = <<>> /\ mu.waiting = {}

\* sync.RWMutex.Lock returns when nobody holds the lock.
LockReturns(mu) == mu.writer = <<>> /\ mu.readers = 0

\* A thread calls an operation.
CallOperation(th, op) ==
  /\ calls[th].pc = 0
  /\ op = "TraceLineage" =>
        rwmutex["pg.mutex"].readers
          + Cardinality({ u \in Threads : calls[u].op = "TraceLineage" }) < MaxReadHolds
  /\ calls' = [calls EXCEPT ![th] = [op |-> op, pc |-> 1]]
  /\ UNCHANGED lockFrame

\* A thread makes its next lock call.  Lock first announces the writer, which
\* holds back later readers, and returns in a later step.
RunInstruction(th) ==
  /\ calls[th].pc > 0
  /\ calls[th].pc <= Len(LockPrograms[calls[th].op])
  /\ LET ins == LockPrograms[calls[th].op][calls[th].pc]
         m == ins[2]
         mu == rwmutex[m]
     IN CASE ins[1] = "RLock" ->
               /\ RLockReturns(mu)
               /\ rwmutex' = [rwmutex EXCEPT ![m].readers = @ + 1]
               /\ calls' = [calls EXCEPT ![th].pc = @ + 1]
          [] ins[1] = "RUnlock" ->
               /\ rwmutex' = [rwmutex EXCEPT ![m].readers = @ - 1]
               /\ calls' = [calls EXCEPT ![th].pc = @ + 1]
          [] ins[1] = "Lock" /\ th \notin mu.waiting ->
               /\ rwmutex' = [rwmutex EXCEPT ![m].waiting = @ \cup {th}]
               /\ UNCHANGED calls
          [] ins[1] = "Lock" /\ th \in mu.waiting ->
               /\ LockReturns(mu)
               /\ rwmutex' = [rwmutex EXCEPT ![m].waiting = @ \ {th}, ![m].writer = <<th>>]
               /\ calls' = [calls EXCEPT ![th].pc = @ + 1]
          [] ins[1] = "Unlock" ->
               /\ rwmutex' = [rwmutex EXCEPT ![m].writer = <<>>]
               /\ calls' = [calls EXCEPT ![th].pc = @ + 1]
  /\ UNCHANGED <<now, baseVars, RevokedBindings, TemporalBoundaries, merkleVars, provVars,
                 Peers, Proposals, DecisionLog, Votes, nanoSeq, Replicas, ExpiryCallbacks,
                 ProofCache, nreq, ret>>

\* A thread returns from its operation.
ReturnFromCall(th) ==
  /\ calls[th].pc > 0
  /\ calls[th].pc > Len(LockPrograms[calls[th].op])
  /\ calls' = [calls EXCEPT ![th] = NoCall]
  /\ UNCHANGED lockFrame

\* The steps of a thread inside a call.
Advance(th) == RunInstruction(th) \/ ReturnFromCall(th)

NextMutex ==
  \E th \in Threads :
     \/ \E op \in DOMAIN LockPrograms : CallOperation(th, op)
     \/ RunInstruction(th)
     \/ ReturnFromCall(th)

SpecMutex == InitLocks /\ [][NextMutex]_vars

\* The scheduler runs every thread that can go on, and a call waiting for a
\* lock that is free again and again gets it: sync.Mutex hands the lock to a
\* starving waiter, and a waiting writer holds back new readers.
SpecMutexLive == SpecMutex /\ \A th \in Threads : SF_vars(Advance(th))

(* ------------------------------------------------------------------ *)
(* CRDT managers exchanging state (unnamed/part_005, lines 308-350)     *)
(* ------------------------------------------------------------------ *)
crdtFrame ==
  <<now, baseVars, RevokedBindings, TemporalBoundaries, merkleVars, provVars,
    Peers, Proposals, DecisionLog, Votes, nanoSeq, ExpiryCallbacks, ProofCache, rwmutex, nreq, calls>>

\* r.UpdateBoundary(boundaryID, boundaryData); the data written carries the
\* time of the update.
UpdateBoundaryCall(r, boundaryID, data) ==
  /\ Replicas' = [Replicas EXCEPT ![r] =
                    UpdateBoundary(@, boundaryID, [data |-> data, updated |-> now])]
  /\ ret' = Void
  /\ UNCHANGED crdtFrame

\* r.MergeState(o) for two different managers.
MergeStateCall(r, o) ==
  /\ r # o
  /\ Replicas' = [Replicas EXCEPT ![r] = MergeState(@, Replicas[o])]
  /\ ret' = [op |-> "MergeState", receiver |-> r, other |-> o, before |-> Replicas]
  /\ UNCHANGED crdtFrame

NextCRDT ==
  \/ Tick
  \/ \E r \in ReplicaIDs, k \in BoundaryKeys, d \in BoundaryData : UpdateBoundaryCall(r, k, d)
  \/ \E r \in ReplicaIDs, o \in ReplicaIDs : MergeStateCall(r, o)

SpecCRDT == Init /\ [][NextCRDT]_vars

(* ------------------------------------------------------------------ *)
(* The temporal boundary manager handling expiry (unnamed/part_006)     *)
(* ------------------------------------------------------------------ *)
expiryFrame ==
  <<now, baseVars, RevokedBindings, merkleVars, provVars,
    Peers, Proposals, DecisionLog, Votes, nanoSeq, Replicas, ProofCache, rwmutex, nreq, calls>>

\* tbm.RegisterBoundary(boundary).
ManagerRegisterBoundary(boundary) ==
  /\ TemporalBoundaries' = (boundary.ID :> boundary) @@ TemporalBoundaries
  /\ ret' = Void
  /\ UNCHANGED <<expiryFrame, ExpiryCallbacks>>

\* tbm.RegisterExpiryCallback(boundaryID, callback).
RegisterExpiryCallback(boundaryID) ==
  /\ ExpiryCallbacks' = ExpiryCallbacks \cup {boundaryID}
  /\ ret' = Void
  /\ UNCHANGED <<expiryFrame, TemporalBoundaries>>

\* tbm.HandleExpiry(boundaryID).
HandleExpiryCall(boundaryID) ==
  /\ LET out == HandleExpiry(TemporalBoundaries, ExpiryCallbacks, boundaryID, now)
     IN /\ TemporalBoundaries' = out.TemporalBoundaries
        /\ ret' = [op |-> "HandleExpiry", id |-> boundaryID, called |-> out.called,
                   at |-> now, before |-> TemporalBoundaries]
  /\ UNCHANGED <<expiryFrame, ExpiryCallbacks>>

NextExpiry ==
  \/ Tick
  \/ \E boundary \in ExpiryInputs : ManagerRegisterBoundary(boundary)
  \/ \E id \in ExpiryIDs : RegisterExpiryCallback(id)
  \/ \E id \in ExpiryIDs : HandleExpiryCall(id)

SpecExpiry == Init /\ [][NextExpiry]_vars

(* ------------------------------------------------------------------ *)
(* An LRUCache used on its own (unnamed/part_004, lines 11-85)          *)
(* ------------------------------------------------------------------ *)
cacheFrame ==
  <<now, baseVars, RevokedBindings, TemporalBoundaries, merkleVars, provVars,
    Peers, Proposals, DecisionLog, Votes, nanoSeq, Replicas, ExpiryCallbacks, rwmutex, nreq, calls>>

\* The keys in the order of their last use, most recent last, after a use
\* of key.
Used(uses, key) == SelectSeq(uses, LAMBDA k : k # key) \o <<key>>

\* What a call on the cache leaves in ret: the call, its result, the cache
\* before it and the order of last use since the cache was last empty.
CacheReturned(op, key, value, result, uses) ==
  [op |-> op, key |-> key, value |-> value, result |-> result,
   before |-> ProofCache, before_uses |-> ret.uses, uses |-> uses]

\* cache := NewLRUCache(maxsize).
InitCache ==
  /\ now = 1
  /\ Jurisdictions = {}
  /\ ExecutionDomains = <<>>
  /\ BoundArtifacts = <<>>
  /\ Boundaries = <<>>
  /\ RevokedBindings = <<>>
  /\ TemporalBoundaries = <<>>
  /\ Leaves = <<>>
  /\ Tree = <<>>
  /\ Nodes = <<>>
  /\ Edges = <<>>
  /\ FlowRecords = <<>>
  /\ Peers \in PeerLists
  /\ Proposals = <<>>
  /\ DecisionLog = <<>>
  /\ Votes = <<>>
  /\ Replicas = NoReplicas
  /\ ExpiryCallbacks = {}
  /\ \E maxsize \in CacheSizes : ProofCache = NewLRUCache(maxsize)
  /\ rwmutex = NoLocks
  /\ nanoSeq = 0
  /\ nreq = 0
  /\ ret = [op |-> "NewLRUCache", key |-> "", value |-> "", result |-> <<>>,
            before |-> ProofCache, before_uses |-> <<>>, uses |-> <<>>]
  /\ calls = [t \in Threads |-> IdleCall]

\* cache.Get(key).
GetCall(key) ==
  /\ ProofCache' = Get(ProofCache, key).lru
  /\ ret' = CacheReturned("Get", key, "", Get(ProofCache, key).value,
                          IF key \in DOMAIN ProofCache.cache
                          THEN Used(ret.uses, key) ELSE ret.uses)
  /\ UNCHANGED cacheFrame

\* cache.Put(key, value).
PutCall(key, value) ==
  /\ ProofCache' = Put(ProofCache, key, value)
  /\ ret' = CacheReturned("Put", key, value, <<>>, Used(ret.uses, key))
  /\ UNCHANGED cacheFrame

\* cache.Clear().
ClearCall ==
  /\ ProofCache' = Clear(ProofCache)
  /\ ret' = CacheReturned("Clear", "", "", <<>>, <<>>)
  /\ UNCHANGED cacheFrame

NextCache ==
  \/ \E key \in CacheKeys : GetCall(key)
  \/ \E key \in CacheKeys, value \in CacheValues : PutCall(key, value)
  \/ ClearCall

SpecCache == InitCache /\ [][NextCache]_vars

(* ------------------------------------------------------------------ *)
(* The consent protocol used on its own (unnamed/part_005)              *)
(* ------------------------------------------------------------------ *)
\* NewDistributedBoundaryEnforcer(NodeID, peers)
InitConsent ==
  /\ now = 1
  /\ Jurisdictions = {}
  /\ ExecutionDomains = <<>>
  /\ BoundArtifacts = <<>>
  /\ Boundaries = <<>>
  /\ RevokedBindings = <<>>
  /\ TemporalBoundaries = <<>>
  /\ Leaves = <<>>
  /\ Tree = <<>>
  /\ Nodes = <<>>
  /\ Edges = <<>>
  /\ FlowRecords = <<>>
  /\ Peers \in ConsentPeerLists
  /\ Proposals = <<>>
  /\ DecisionLog = <<>>
  /\ Votes = <<>>
  /\ Replicas = NoReplicas
  /\ ExpiryCallbacks = {}
  /\ ProofCache = NewLRUCache(0)
  /\ rwmutex = NoLocks
  /\ nanoSeq = 0
  /\ nreq = 0
  /\ ret = Void
  /\ calls = [t \in Threads |-> IdleCall]

\* What is left alone by a call on the consent protocol.
consentFrame ==
  <<baseVars, RevokedBindings, TemporalBoundaries, merkleVars, provVars, Peers, Votes, Replicas, ExpiryCallbacks, ProofCache, rwmutex,
    nreq, calls>>

\* A call of HasQuorum(votes).
HasQuorumCall(votes) ==
  /\ ret' = [op |-> "HasQuorum", votes |-> votes, result |-> HasQuorum(Peers, votes)]
  /\ UNCHANGED <<now, consentFrame, Proposals, DecisionLog, nanoSeq>>

\* A call of ComputeDecision(votes).
ComputeDecisionCall(votes) ==
  /\ ret' = [op |-> "ComputeDecision", votes |-> votes, result |-> ComputeDecision(votes)]
  /\ UNCHANGED <<now, consentFrame, Proposals, DecisionLog, nanoSeq>>

\* A call of ProposeBoundaryDecision(artifactID, sourceDomainID,
\* targetDomainID) during which the peers in responded, and no others, answer
\* the broadcast.  broadcastProposal sends nothing and nothing receives an
\* answer, so the call is the same whoever answers.
ProposeBoundaryDecisionCall(artifactID, sourceDomainID, targetDomainID, responded) ==
  /\ Len(DecisionLog) < MaxProposals
  /\ Cardinality(DOMAIN Proposals) < MaxProposals
  /\ LET out == ProposeBoundaryDecision(Store, artifactID, sourceDomainID, targetDomainID,
                                        now, now, now)
     IN /\ Proposals' = out.st.Proposals
        /\ DecisionLog' = out.st.DecisionLog
        /\ nanoSeq' = out.st.nanoSeq
        /\ ret' = [op |-> "ProposeBoundaryDecision",
                   args |-> <<artifactID, sourceDomainID, targetDomainID>>,
                   result |-> out.decision, votes |-> out.votes, sent |-> out.sent,
                   proposal |-> out.proposal, responded |-> responded, before |-> Store]
  /\ UNCHANGED <<now, consentFrame>>

NextConsent ==
  \/ Tick
  \/ \E votes \in VoteMaps : HasQuorumCall(votes)
  \/ \E votes \in VoteMaps : ComputeDecisionCall(votes)
  \/ \E r \in ProposalRequests, responded \in SUBSET { Peers[i] : i \in 1..Len(Peers) } :
        ProposeBoundaryDecisionCall(r[1], r[2], r[3], responded)

SpecConsent == InitConsent /\ [][NextConsent]_vars

(* ------------------------------------------------------------------ *)
(* Decision requests of several threads                                 *)
(* (core/research_grade_enforcer.go, lines 40-123 and 45-46)            *)
(* ------------------------------------------------------------------ *)
\* The requests the threads make.
ConcRequests == { <<"m", "d1", "d1">>, <<"m", "d1", "d2">> }

\* The clock stands still while the threads run.
StillClock == [ p \in 1..NumReads |-> now ]

\* MutexFree with the mutex never taken.
MutexFreeUnlocked(th) == TRUE

\* rge.mutex.Lock() with the deferred Unlock: a thread enters the pipeline
\* only while no other thread is inside it.
MutexFree(th) ==
  \A u \in Threads \ {th} : calls[u].pc \notin {"verified", "decided"}

\* The pipeline stopped before provenance recording: one of the checks of
\* lines 65-102 refused the request.
RefusedBeforeRecord(out, sourceDomainID, targetDomainID) ==
  \/ sourceDomainID \notin DOMAIN ExecutionDomains
  \/ targetDomainID \notin DOMAIN ExecutionDomains
  \/ out.err.kind \in {"TemporalConstraintViolation", "ConsensusFailure"}
  \/ out.err.detail \in {"invariant violated: I1", "invariant violated: I2"}

\* A registry with one jurisdiction, two domains, a rule that allows the
\* crossing and artifact m bound once, at time 1; the clock shows 2.
InitConc ==
  LET binding == NewBinding("m", "a", "k1", "h1", "static", 1)
      merkle  == AddLeaf(<<>>, <<>>, BindingHash(binding))
  IN /\ now = 2
     /\ Jurisdictions = {"a"}
     /\ ExecutionDomains = [ id \in DomainIDs |->
                               CHOOSE d \in DomainInputs : d.ID = id ]
     /\ BoundArtifacts = ("m" :> <<binding>>)
     /\ Boundaries = ("a:a:a" :> CHOOSE b \in BoundaryInputs : b.ID = "b1")
     /\ RevokedBindings = <<>>
     /\ TemporalBoundaries = <<>>
     /\ Leaves = merkle.Leaves
     /\ Tree = merkle.Tree
     /\ Nodes = <<>>
     /\ Edges = <<>>
     /\ FlowRecords = <<>>
     /\ Peers = <<"n2", "n3">>
     /\ Proposals = <<>>
     /\ DecisionLog = <<>>
     /\ Votes = <<>>
  /\ Replicas = NoReplicas
  /\ ExpiryCallbacks = {}
  /\ ProofCache = NewLRUCache(0)
  /\ rwmutex = NoLocks
     /\ nanoSeq = 0
     /\ nreq = 0
     /\ ret = Void
     /\ calls = [t \in Threads |-> IdleCall]

\* Lines 45-63: a thread takes the mutex, loads the bindings of the artifact
\* and verifies each of them.
Enter(th, artifactID, sourceDomainID, targetDomainID) ==
  /\ calls[th].pc = "idle"
  /\ MutexFree(th)
  /\ LET out == EnforceOutcome(artifactID, sourceDomainID, targetDomainID, StillClock)
         entered == [IdleCall EXCEPT !.args = <<artifactID, sourceDomainID, targetDomainID>>]
     IN calls' = [calls EXCEPT ![th] =
          IF out.err.kind \in {"InvalidJurisdictionBinding", "BindingIntegrityViolation"}
            THEN [entered EXCEPT !.pc = "done", !.err = out.err]
            ELSE [entered EXCEPT !.pc = "verified",
                                 !.verified = BindingsOf(artifactID),
                                 !.seen = << [BoundArtifacts  |-> BoundArtifacts,
                                              RevokedBindings |-> RevokedBindings,
                                              Leaves          |-> Leaves] >>]]
  /\ UNCHANGED <<now, baseVars, RevokedBindings, TemporalBoundaries, merkleVars,
                 provVars, consVars, nreq, ret>>

\* Lines 65-102: the thread resolves the domains, runs the temporal check,
\* I1 and I2, and asks for consent.
Decide(th) ==
  /\ calls[th].pc = "verified"
  /\ LET a == calls[th].args[1]
         s == calls[th].args[2]
         t == calls[th].args[3]
         out == StepResolveDomains(Store, a, s, t, StillClock, now)
         refused == RefusedBeforeRecord(out, s, t)
     IN /\ Proposals' = out.st.Proposals
        /\ DecisionLog' = out.st.DecisionLog
        /\ nanoSeq' = out.st.nanoSeq
        /\ calls' = [calls EXCEPT ![th] =
             IF refused
               THEN [@ EXCEPT !.pc = "done", !.err = out.err]
               ELSE [@ EXCEPT !.pc = "decided", !.logIndex = Len(out.st.DecisionLog)]]
  /\ UNCHANGED <<now, baseVars, RevokedBindings, TemporalBoundaries, merkleVars,
                 provVars, Peers, Votes, Replicas, ExpiryCallbacks, ProofCache, rwmutex, nreq, ret>>

\* Lines 104-122: the thread records the flow, has the base enforcer build
\* the proof, checks I5, appends the leaf and returns, releasing the mutex.
Emit(th) ==
  /\ calls[th].pc = "decided"
  /\ LET a == calls[th].args[1]
         s == calls[th].args[2]
         t == calls[th].args[3]
         out == StepRecordDataFlow(Store, a, s, t, StillClock)
     IN /\ Nodes' = out.st.Nodes
        /\ Edges' = out.st.Edges
        /\ FlowRecords' = out.st.FlowRecords
        /\ Leaves' = out.st.Leaves
        /\ Tree' = out.st.Tree
        /\ calls' = [calls EXCEPT ![th] =
             [@ EXCEPT !.pc = "done", !.err = out.err, !.proof = out.proof,
                       !.used = BindingsOf(a),
                       !.leafIndex = IF out.err = NilError THEN Len(out.st.Leaves) ELSE 0]]
  /\ UNCHANGED <<now, baseVars, RevokedBindings, TemporalBoundaries, consVars, nreq, ret>>

NextConc ==
  \/ \E th \in Threads, r \in ConcRequests : Enter(th, r[1], r[2], r[3])
  \/ \E th \in Threads : Decide(th)
  \/ \E th \in Threads : Emit(th)
  \/ \E a \in ArtifactIDs, j \in JIDs, k \in PrivateKeys, h \in ArtifactHashes :
       BindArtifactWithCrypto(a, j, k, h)
  \/ \E id \in BindingIDs : RevokeBinding(id)

SpecConc == InitConc /\ [][NextConc]_vars

(* ------------------------------------------------------------------ *)
(* Properties of the decision pipeline                                  *)
(* ------------------------------------------------------------------ *)
\* The last call was a decision request.
Decided == ret.op = "EnforceBoundaryWithAllChecks"
\* The arguments of the last call.
ReqArtifact == ret.args[1]
ReqSource == ret.args[2]
ReqTarget == ret.args[3]
\* Both domains of the last call are registered.
ReqKnown == ReqSource \in DOMAIN ExecutionDomains /\ ReqTarget \in DOMAIN ExecutionDomains
ReqSourceJID == ExecutionDomains[ReqSource].JurisdictionID
ReqTargetJID == ExecutionDomains[ReqTarget].JurisdictionID
ReqKey == KeyOf(ReqSourceJID, ReqTargetJID)
\* The last call left the Merkle tree and the provenance records as they were.
NoLeafAdded == Leaves = ret.before.Leaves /\ Tree = ret.before.Tree
NoProvenanceAdded ==
  /\ Nodes = ret.before.Nodes
  /\ Edges = ret.before.Edges
  /\ FlowRecords = ret.before.FlowRecords
I5Error == Err("InvariantViolation", "invariant violated: I5")

\* C1: whenever EnforceBoundaryWithAllChecks returns an error, no Merkle leaf
\* has been appended and no provenance node or flow record has been recorded
\* for that request.
C1_ErrorLeavesNoPartialState ==
  (Decided /\ ret.err # NilError) => (NoLeafAdded /\ NoProvenanceAdded)

\* C2: EnforceBoundaryWithAllChecks returns a nil error only together with a
\* proof whose allowed is true; a denial is never a nil error with an
\* allowed=false proof.
C2_NilErrorOnlyWithAllowedProof ==
  (Decided /\ ret.err = NilError) => (ret.proof # <<>> /\ ret.proof[1].Allowed)

\* The domains s and t are registered, lie in different jurisdictions and no
\* Boundary is stored under the key of their jurisdictions.
NoRuleBetween(s, t) ==
  /\ s \in DOMAIN ExecutionDomains
  /\ t \in DOMAIN ExecutionDomains
  /\ ExecutionDomains[s].JurisdictionID # ExecutionDomains[t].JurisdictionID
  /\ KeyOf(ExecutionDomains[s].JurisdictionID, ExecutionDomains[t].JurisdictionID)
       \notin DOMAIN Boundaries

\* The artifact has a binding to the jurisdiction of domain s.
BoundToSourceOf(artifactID, s) ==
  \E i \in 1..Len(BindingsOf(artifactID)) :
     BindingsOf(artifactID)[i].JurisdictionID = ExecutionDomains[s].JurisdictionID

\* C3 as stated: between different jurisdictions without a Boundary under the
\* key src_jid:tgt_jid, EnforceBoundaryWithAllChecks returns no proof with
\* allowed=true and base CheckBoundary returns a proof with allowed=false and
\* reason "No explicit boundary rule defined", whatever the bindings.
C3_NoRuleDeniedWithProof ==
  /\ (Decided /\ NoRuleBetween(ReqSource, ReqTarget))
       => ~(ret.proof # <<>> /\ ret.proof[1].Allowed)
  /\ \A a \in ArtifactIDs, s \in DomainIDs, t \in DomainIDs :
       NoRuleBetween(s, t) =>
         LET checked == CheckBoundary(a, s, t, now)
         IN /\ checked.proof # <<>>
            /\ ~checked.proof[1].Allowed
            /\ checked.proof[1].Reason = "No explicit boundary rule defined"

\* C3 amended: between different jurisdictions without a Boundary under the
\* key src_jid:tgt_jid, EnforceBoundaryWithAllChecks returns an error and no
\* proof; base CheckBoundary returns a proof with allowed=false and reason
\* "No explicit boundary rule defined" when the artifact is bound to the
\* source jurisdiction, and a JurisdictionalViolation without a proof when it
\* is not.
C3_NoRuleDenied ==
  /\ (Decided /\ NoRuleBetween(ReqSource, ReqTarget))
       => (ret.proof = <<>> /\ ret.err # NilError)
  /\ \A a \in ArtifactIDs, s \in DomainIDs, t \in DomainIDs :
       NoRuleBetween(s, t) =>
         LET checked == CheckBoundary(a, s, t, now)
         IN IF BoundToSourceOf(a, s)
              THEN /\ checked.err = NilError
                   /\ checked.proof # <<>>
                   /\ ~checked.proof[1].Allowed
                   /\ checked.proof[1].Reason = "No explicit boundary rule defined"
              ELSE /\ checked.err.kind = "JurisdictionalViolation"
                   /\ checked.proof = <<>>

\* A request between different jurisdictions without a Boundary, by an
\* artifact whose bindings are all valid and one of which is to the source
\* jurisdiction, was refused with invariant I2.
C3_Witness ==
  /\ Decided
  /\ NoRuleBetween(ReqSource, ReqTarget)
  /\ BoundToSourceOf(ReqArtifact, ReqSource)
  /\ ret.err = Err("InvariantViolation", "invariant violated: I2")
  /\ CheckBoundary(ReqArtifact, ReqSource, ReqTarget, now).proof # <<>>

RevokedBy(b, t) == b.ID \in DOMAIN RevokedBindings /\ RevokedBindings[b.ID] <= t

\* C5: if any single binding of the artifact fails Verify, or is revoked with
\* a revocation time at or before the time of the request,
\* EnforceBoundaryWithAllChecks fails with BindingIntegrityViolation and
\* returns no proof.
C5_BadBindingRefused ==
  (Decided /\ \E i \in 1..Len(BindingsOf(ReqArtifact)) :
                 \/ ~Verify(BindingsOf(ReqArtifact)[i])
                 \/ RevokedBy(BindingsOf(ReqArtifact)[i], ret.at))
    => (ret.err.kind = "BindingIntegrityViolation" /\ ret.proof = <<>>)

\* A request was refused with BindingIntegrityViolation for a revoked second
\* binding, while the first binding is valid and not revoked and a Boundary
\* allows the crossing.
C5_Witness ==
  /\ Decided
  /\ ret.err.kind = "BindingIntegrityViolation"
  /\ Len(BindingsOf(ReqArtifact)) = 2
  /\ Verify(BindingsOf(ReqArtifact)[1])
  /\ BindingsOf(ReqArtifact)[1].ID \notin DOMAIN RevokedBindings
  /\ Verify(BindingsOf(ReqArtifact)[2])
  /\ RevokedBy(BindingsOf(ReqArtifact)[2], ret.at)
  /\ ReqKnown
  /\ ReqKey \in DOMAIN Boundaries
  /\ Boundaries[ReqKey].Allowed

\* The request reached the temporal step: its bindings passed and its domains
\* are registered.
ReachedTemporalStep ==
  /\ Decided
  /\ ret.err.kind \notin {"InvalidJurisdictionBinding", "BindingIntegrityViolation"}
  /\ ReqKnown

\* The temporal boundaries registered with exactly the jurisdictions (s, t).
TemporalFor(s, t) ==
  { id \in DOMAIN TemporalBoundaries :
      /\ TemporalBoundaries[id].SourceJurisdictionID = s
      /\ TemporalBoundaries[id].TargetJurisdictionID = t }

\* C6: a request that reaches the temporal step fails with
\* TemporalConstraintViolation only if a temporal boundary is registered with
\* exactly its (src_jid, tgt_jid) and none of those is valid at a time of the
\* call, and passes the step if none is registered for that pair or one of
\* them is valid; temporal boundaries of other pairs have no influence.
C6_TemporalStepExactPair ==
  ReachedTemporalStep =>
    LET own == TemporalFor(ReqSourceJID, ReqTargetJID)
        invalidAt(t) == \A id \in own : ~IsValidAt(TemporalBoundaries[id], t)
    IN IF ret.err.kind = "TemporalConstraintViolation"
         THEN own # {} /\ \E t \in ret.at..MaxTime : invalidAt(t)
         ELSE own = {} \/ \E t \in ret.at..MaxTime : ~invalidAt(t)

\* What a check of the pipeline answers: nil, or the kind of its error and
\* the invariant the error names.
Pass == [kind |-> "nil", label |-> ""]
Refuse(kind, label) == [kind |-> kind, label |-> label]

\* The checks of a request in their order, for the clock readings rd; each
\* is evaluated on its own.
OrderedChecks(a, s, t, rd) ==
  LET bindings == BindingsOf(a)
      known == s \in DOMAIN ExecutionDomains /\ t \in DOMAIN ExecutionDomains
      votes == collectVotes(Peers)
      checked == CheckBoundary(a, s, t, rd[ProofPoint])
  IN << IF Len(bindings) = 0 THEN Refuse("InvalidJurisdictionBinding", "") ELSE Pass,
        IF \E i \in 1..Len(bindings) :
              ~Verify(bindings[i]) \/ IsRevoked(bindings[i].ID, rd[RevPoint(i)])
          THEN Refuse("BindingIntegrityViolation", "") ELSE Pass,
        IF ~known THEN Refuse("JurisdictionalViolation", "") ELSE Pass,
        IF known /\ ~checkTemporalValidity(
                       KeyOf(ExecutionDomains[s].JurisdictionID,
                             ExecutionDomains[t].JurisdictionID), rd[TemporalPoint])
          THEN Refuse("TemporalConstraintViolation", "") ELSE Pass,
        IF CheckNoUnboundExecution(a) THEN Refuse("InvariantViolation", "I1") ELSE Pass,
        IF known /\ CheckExplicitBoundaries(ExecutionDomains[s].JurisdictionID,
                                             ExecutionDomains[t].JurisdictionID)
          THEN Refuse("InvariantViolation", "I2") ELSE Pass,
        IF ~(HasQuorum(Peers, votes) /\ ComputeDecision(votes))
          THEN Refuse("ConsensusFailure", "") ELSE Pass,
        IF checked.err # NilError THEN Refuse(checked.err.kind, "") ELSE Pass,
        IF checked.err = NilError /\ CheckAuditability(checked.proof[1])
          THEN Refuse("InvariantViolation", "I5") ELSE Pass >>

\* The answer of the first check in the order that refuses, or Pass.
FirstFailure(a, s, t, rd) ==
  LET checks == OrderedChecks(a, s, t, rd)
      failing == { i \in 1..Len(checks) : checks[i] # Pass }
  IN IF failing = {} THEN Pass
     ELSE checks[CHOOSE i \in failing : \A k \in failing : i <= k]

\* The error err is the answer expected.
Answers(err, expected) ==
  /\ err.kind = expected.kind
  /\ expected.kind = "InvariantViolation"
       => err.detail = "invariant violated: " \o expected.label

\* C7: the error returned by EnforceBoundaryWithAllChecks is that of the first
\* failing check in the order bindings present, binding verify and
\* revocation, domain resolution, temporal validity, I1, I2, consensus, base
\* CheckBoundary, I5; and a request rejected by consensus produces no proof,
\* no provenance record and no Merkle leaf.
C7_FirstFailingCheckInOrder ==
  Decided =>
    /\ \E rd \in ClockReadings(ret.at) :
          Answers(ret.err, FirstFailure(ReqArtifact, ReqSource, ReqTarget, rd))
    /\ ret.err.kind = "ConsensusFailure"
         => (ret.proof = <<>> /\ NoProvenanceAdded /\ NoLeafAdded)

\* A request whose bindings are valid and whose crossing a Boundary allows
\* was rejected by consensus.
C7_Witness ==
  /\ Decided
  /\ ret.err.kind = "ConsensusFailure"
  /\ ReqKnown
  /\ ReqSourceJID # ReqTargetJID
  /\ ReqKey \in DOMAIN Boundaries
  /\ Boundaries[ReqKey].Allowed
  /\ BoundToSourceOf(ReqArtifact, ReqSource)

\* C8 (I3): for every proof p returned by EnforceBoundaryWithAllChecks and
\* every binding b of p's artifact, the revocation set has no entry
\* revoke[b] <= p.timestamp.
C8_NoBindingRevokedAtProofTime ==
  (Decided /\ ret.proof # <<>>) =>
    \A i \in 1..Len(BindingsOf(ret.proof[1].ArtifactID)) :
       ~RevokedBy(BindingsOf(ret.proof[1].ArtifactID)[i], ret.proof[1].Timestamp)

\* C9 (I4): no proof returned by EnforceBoundaryWithAllChecks or by
\* CheckBoundary has reason "ambiguous" or "unclear" together with
\* allowed=true.
C9_FailClosedOnAmbiguity ==
  /\ (Decided /\ ret.proof # <<>>)
       => ~CheckFailClosedAmbiguity(ret.proof[1].Allowed, ret.proof[1].Reason)
  /\ \A a \in ArtifactIDs, s \in DomainIDs, t \in DomainIDs :
       LET checked == CheckBoundary(a, s, t, now)
       IN checked.proof # <<>>
            => ~CheckFailClosedAmbiguity(checked.proof[1].Allowed, checked.proof[1].Reason)

\* C10: every proof emitted by EnforceBoundaryWithAllChecks has a non-empty
\* id, artifact_id, jurisdiction_id and reason and a timestamp > 0; a request
\* whose Boundary has an empty reason gets no proof and adds no Merkle leaf,
\* and when no earlier check refuses it, it is returned as the
\* InvariantViolation of I5.
C10_EmittedProofsAuditable ==
  Decided =>
    /\ ret.proof # <<>> =>
         /\ ret.proof[1].ID # ""
         /\ ret.proof[1].ArtifactID # ""
         /\ ret.proof[1].JurisdictionID # ""
         /\ ret.proof[1].Reason # ""
         /\ ret.proof[1].Timestamp > 0
    /\ ret.err = I5Error => (ret.proof = <<>> /\ NoLeafAdded)
    /\ (ReqKnown /\ ReqKey \in DOMAIN Boundaries /\ Boundaries[ReqKey].Reason = "")
         => /\ ret.proof = <<>>
            /\ ret.err # NilError
            /\ NoLeafAdded
            /\ (/\ BoundToSourceOf(ReqArtifact, ReqSource)
                /\ ret.err.kind \notin {"InvalidJurisdictionBinding",
                                        "BindingIntegrityViolation",
                                        "TemporalConstraintViolation",
                                        "ConsensusFailure"})
                 => ret.err = I5Error

\* A request whose Boundary was registered with an empty reason was returned
\* as the InvariantViolation of I5.
C10_Witness ==
  /\ Decided
  /\ ReqKnown
  /\ ReqKey \in DOMAIN Boundaries
  /\ Boundaries[ReqKey].Reason = ""
  /\ ret.err = I5Error
  /\ ret.proof = <<>>
  /\ NoLeafAdded

\* C11: while a call of EnforceBoundaryWithAllChecks is between its first and
\* its last step, the binding store, the revocation set and the Merkle leaves
\* are as the call found them, and the bindings the base CheckBoundary step
\* reads are exactly the bindings the call verified.
C11_DecisionAtomic ==
  \A th \in Threads :
    /\ calls[th].pc \in {"verified", "decided"}
         => /\ BoundArtifacts = calls[th].seen[1].BoundArtifacts
            /\ RevokedBindings = calls[th].seen[1].RevokedBindings
            /\ Leaves = calls[th].seen[1].Leaves
    /\ (calls[th].pc = "done" /\ calls[th].leafIndex > 0)
         => calls[th].used = calls[th].verified

\* C12: the proof leaves of the threads' requests lie in the Merkle tree in
\* the order of the requests' decision-log entries.
C12_LeafOrderIsLogOrder ==
  \A th \in Threads, u \in Threads :
    (/\ calls[th].leafIndex > 0
     /\ calls[u].leafIndex > 0
     /\ calls[th].logIndex < calls[u].logIndex)
      => calls[th].leafIndex < calls[u].leafIndex

\* Both threads have had their proofs appended, and a binding made meanwhile
\* has its leaf between the two.
C12_Witness ==
  /\ \A th \in Threads : calls[th].pc = "done" /\ calls[th].leafIndex > 0
  /\ \E th \in Threads, u \in Threads : calls[u].leafIndex > calls[th].leafIndex + 1
  /\ Leaves[calls["t1"].leafIndex] = ProofHash(calls["t1"].proof[1])
  /\ DecisionLog[calls["t1"].logIndex].target_domain = calls["t1"].args[3]

\* The level above a level of a freshly built tree: adjacent nodes paired
\* left to right, the last node paired with itself on a level of odd length.
Paired(level) ==
  [ k \in 1..((Len(level) + 1) \div 2) |->
      Sha256Hex(level[2 * k - 1]
                  \o (IF 2 * k <= Len(level) THEN level[2 * k] ELSE level[2 * k - 1])) ]

\* The levels of a fresh tree over a non-empty sequence of leaves.
RECURSIVE FreshLevels(_)
FreshLevels(level) ==
  IF Len(level) <= 1 THEN <<level>> ELSE <<level>> \o FreshLevels(Paired(level))

\* The root of a fresh tree given the leaves in their order.
FreshRoot(leaves) ==
  IF Len(leaves) = 0 THEN ""
  ELSE FreshLevels(leaves)[Len(FreshLevels(leaves))][1]

\* C13: adding any leaf changes the root: for the leaves in the tree and
\* every leaf h, GetRoot after AddLeaf(h) differs from GetRoot before it.
C13_AddLeafChangesRoot ==
  \A h \in LeafInputs :
     GetRoot(AddLeaf(Leaves, Tree, h).Tree) # GetRoot(Tree)

\* C14: after any sequence of AddLeaf calls, GetRoot is the root of a fresh
\* tree given the same leaves in the same order; the root of an empty tree
\* is the empty string and the root of a one-leaf tree is that leaf.
C14_RootIsFunctionOfLeaves ==
  /\ GetRoot(Tree) = FreshRoot(Leaves)
  /\ Len(Leaves) = 0 => GetRoot(Tree) = ""
  /\ Len(Leaves) = 1 => GetRoot(Tree) = Leaves[1]

\* A tree of three leaves, the last two equal, built by three AddLeaf calls:
\* it stores more levels than a fresh tree has.
C14_Witness ==
  /\ Len(Leaves) = 3
  /\ Leaves[2] # Leaves[1]
  /\ Len(Tree) > Len(FreshLevels(Leaves))
  /\ GetRoot(Tree) = Sha256Hex(Sha256Hex(Leaves[1] \o Leaves[2])
                                \o Sha256Hex(Leaves[3] \o Leaves[3]))

\* The sibling hashes on the path of node index (counted from 0) from level
\* i of the given levels up to the level below the root.
RECURSIVE SiblingPath(_, _, _)
SiblingPath(levels, i, index) ==
  IF i >= Len(levels)
    THEN <<>>
    ELSE LET sibling == IF index % 2 = 0 THEN index + 1 ELSE index - 1
         IN (IF sibling < Len(levels[i]) THEN <<levels[i][sibling + 1]>> ELSE <<>>)
              \o SiblingPath(levels, i + 1, index \div 2)

\* C15: after any sequence of AddLeaf calls, GetProof(i) returns the sibling
\* hashes on the path of leaf i from the leaf level of the tree built from
\* the current leaves upward, and an empty list for i >= number of leaves or
\* an empty tree.
C15_ProofIsSiblingPath ==
  \A i \in 0..(Len(Leaves) + 1) :
     GetProof(Leaves, Tree, i) =
       IF Len(Leaves) = 0 \/ i >= Len(Leaves)
         THEN <<>>
         ELSE SiblingPath(FreshLevels(Leaves), 1, i)

\* The quorum threshold for N nodes, 2*floor((N-1)/3) + 1, with the floor
\* taken as the largest f such that 3f <= N-1.
Threshold(N) ==
  2 * (CHOOSE f \in 0..N : 3 * f <= N - 1 /\ 3 * (f + 1) > N - 1) + 1

\* C16: with N = len(Peers) + 1, HasQuorum(votes) holds iff the number of
\* entries in votes is at least 2*floor((N-1)/3) + 1, whatever the values of
\* the votes.
C16_QuorumCountsEntries ==
  ret.op = "HasQuorum"
    => ret.result = (Cardinality(DOMAIN ret.votes) >= Threshold(Len(Peers) + 1))

\* HasQuorum holds for three votes at three peers although one vote is false,
\* and fails for two votes at the same peers.
C16_Witness ==
  /\ ret.op = "HasQuorum"
  /\ Len(Peers) = 3
  /\ ret.result
  /\ Cardinality(DOMAIN ret.votes) = 3
  /\ \E n \in DOMAIN ret.votes : ~ret.votes[n]
  /\ ~HasQuorum(Peers, [ n \in {"n1", "n2"} |-> TRUE ])

\* C17: ComputeDecision returns true iff the vote map is non-empty and every
\* vote is true; a single false vote makes the decision false, and an empty
\* vote map gives false.
C17_DecisionIsConjunction ==
  ret.op = "ComputeDecision"
    => /\ ret.result = (DOMAIN ret.votes # {} /\ \A n \in DOMAIN ret.votes : ret.votes[n])
       /\ (\E n \in DOMAIN ret.votes : ~ret.votes[n]) => ~ret.result
       /\ DOMAIN ret.votes = {} => ~ret.result

\* Two approving votes and one false vote give the decision false.
C17_Witness ==
  /\ ret.op = "ComputeDecision"
  /\ Cardinality({ n \in DOMAIN ret.votes : ret.votes[n] }) = 2
  /\ Cardinality({ n \in DOMAIN ret.votes : ~ret.votes[n] }) = 1
  /\ ~ret.result

\* The entries of the decision log written for the proposal with the given id.
LogEntriesOf(log, proposalID) ==
  { i \in 1..Len(log) : log[i].proposal_id = proposalID }

\* C18: every ProposeBoundaryDecision call records one proposal and then
\* either commits or aborts: if the collected votes reach quorum it broadcasts
\* commit, appends exactly one decision-log entry whose decision is the AND of
\* the votes and returns that decision; otherwise it broadcasts abort, appends
\* nothing to the decision log and returns false.  No proposal is both
\* committed and aborted and the decision log never shrinks.
C18_CommitOrAbort ==
  /\ \A i, j \in 1..Len(DecisionLog) :
        /\ DecisionLog[i].proposal_id \in DOMAIN Proposals
        /\ DecisionLog[i].proposal_id = DecisionLog[j].proposal_id => i = j
  /\ ret.op = "ProposeBoundaryDecision"
       => LET id == ret.proposal.ProposalID
              reached == Cardinality(DOMAIN ret.votes) >= Threshold(Len(Peers) + 1)
              conj == \A n \in DOMAIN ret.votes : ret.votes[n]
          IN /\ id \notin DOMAIN ret.before.Proposals
             /\ DOMAIN Proposals = DOMAIN ret.before.Proposals \cup {id}
             /\ Proposals[id] = ret.proposal
             /\ \A q \in DOMAIN ret.before.Proposals : Proposals[q] = ret.before.Proposals[q]
             /\ reached
                  => /\ ret.sent = <<"proposal", "commit">>
                     /\ Len(DecisionLog) = Len(ret.before.DecisionLog) + 1
                     /\ SubSeq(DecisionLog, 1, Len(ret.before.DecisionLog))
                          = ret.before.DecisionLog
                     /\ DecisionLog[Len(DecisionLog)].proposal_id = id
                     /\ DecisionLog[Len(DecisionLog)].decision = conj
                     /\ ret.result = conj
             /\ ~reached
                  => /\ ret.sent = <<"proposal", "abort">>
                     /\ DecisionLog = ret.before.DecisionLog
                     /\ LogEntriesOf(DecisionLog, id) = {}
                     /\ ret.result = FALSE

\* A second call that aborted for want of quorum, after a first one that
\* aborted too: two proposals recorded, nothing logged.
C18_Witness ==
  /\ ret.op = "ProposeBoundaryDecision"
  /\ Cardinality(DOMAIN Proposals) = 2
  /\ ret.sent = <<"proposal", "abort">>
  /\ Len(DecisionLog) = 0
  /\ ~ret.result

\* C19: the vote map used by ProposeBoundaryDecision contains an entry for a
\* peer only if that peer actually voted, so a peer that never responded is
\* never counted towards quorum and never counted as an approving vote.
C19_LostVotesAbsent ==
  ret.op = "ProposeBoundaryDecision"
    => \A p \in DOMAIN ret.votes \ {NodeID} : p \in ret.responded

\* C20: BindArtifactToJurisdiction fails with InvalidJurisdictionBinding iff
\* the jurisdiction id is not registered, and then leaves the binding store
\* unchanged (BindArtifactWithCrypto then also adds no Merkle leaf); otherwise
\* it appends exactly one binding, which verifies, to the bindings of the
\* artifact, keeping the earlier bindings of that artifact.
C20_BindContract ==
  /\ \A a \in ArtifactIDs \cup {"x"}, j \in JIDs, k \in PrivateKeys, h \in ArtifactHashes :
        LET out == BindArtifactToJurisdiction(a, j, k, h, "static")
            registered == \E r \in Jurisdictions : r = j
        IN /\ (out.err.kind = "InvalidJurisdictionBinding") <=> ~registered
           /\ out.err = NilError <=> registered
           /\ ~registered => out.BoundArtifacts = BoundArtifacts /\ out.binding = <<>>
           /\ registered
                => /\ Len(out.binding) = 1
                   /\ Verify(out.binding[1])
                   /\ out.binding[1].ArtifactID = a
                   /\ out.binding[1].JurisdictionID = j
                   /\ DOMAIN out.BoundArtifacts = DOMAIN BoundArtifacts \cup {a}
                   /\ Len(out.BoundArtifacts[a]) = Len(BindingsOf(a)) + 1
                   /\ \A i \in 1..Len(BindingsOf(a)) :
                         out.BoundArtifacts[a][i] = BindingsOf(a)[i]
                   /\ out.BoundArtifacts[a][Len(BindingsOf(a)) + 1] = out.binding[1]
                   /\ \A o \in DOMAIN BoundArtifacts \ {a} :
                         out.BoundArtifacts[o] = BoundArtifacts[o]
  /\ ret.op = "BindArtifactWithCrypto"
       => LET a == ret.args[1]
              j == ret.args[2]
          IN /\ ret.err # NilError <=> j \notin Jurisdictions
             /\ ret.err # NilError
                  => ret.err.kind = "InvalidJurisdictionBinding" /\ Leaves = ret.before.Leaves
             /\ ret.err = NilError
                  => /\ Len(BindingsOf(a)) >= 1
                     /\ Verify(BindingsOf(a)[Len(BindingsOf(a))])
                     /\ BindingsOf(a)[Len(BindingsOf(a))].JurisdictionID = j
                     /\ Leaves = Append(ret.before.Leaves,
                                        BindingHash(BindingsOf(a)[Len(BindingsOf(a))]))

\* A second successful bind of an artifact: both bindings are stored, the
\* earlier one first.
C20_Witness ==
  /\ ret.op = "BindArtifactWithCrypto"
  /\ ret.err = NilError
  /\ Len(BindingsOf("m")) = 2
  /\ BindingsOf("m")[1].Timestamp < BindingsOf("m")[2].Timestamp
  /\ Len(Leaves) = 2

\* The outcome the contract of CheckBoundary gives for a request in the
\* present registries: "violation", or the allowed flag and the reason of the
\* proof.
CheckContract(a, s, t) ==
  IF ~(\E d \in DOMAIN ExecutionDomains : d = s) \/ ~(\E d \in DOMAIN ExecutionDomains : d = t)
    THEN [violation |-> TRUE, allowed |-> FALSE, reason |-> ""]
  ELSE IF ~(\E i \in 1..Len(BindingsOf(a)) :
               BindingsOf(a)[i].JurisdictionID = ExecutionDomains[s].JurisdictionID)
    THEN [violation |-> TRUE, allowed |-> FALSE, reason |-> ""]
  ELSE LET key == ExecutionDomains[s].JurisdictionID \o ":" \o ExecutionDomains[t].JurisdictionID
           stored == { k \in DOMAIN Boundaries : k = key }
       IN IF stored = {}
            THEN [violation |-> FALSE, allowed |-> FALSE,
                  reason |-> "No explicit boundary rule defined"]
            ELSE [violation |-> FALSE, allowed |-> Boundaries[key].Allowed,
                  reason |-> Boundaries[key].Reason]

\* C21: base CheckBoundary changes no registry and returns
\* JurisdictionalViolation if the source or the target domain is unknown or
\* if no binding of the artifact names the source domain's jurisdiction;
\* otherwise a proof whose allowed and reason are those of the Boundary stored
\* under src_jid:tgt_jid, or allowed=false with reason "No explicit boundary
\* rule defined" when none is stored.  EnforceBoundary returns nil iff
\* CheckBoundary returns a proof with allowed=true.
C21_CheckBoundaryContract ==
  /\ ret.op \in {"CheckBoundary", "EnforceBoundary"} => ret.before = Registries
  /\ ret.op = "CheckBoundary"
       => LET want == CheckContract(ret.args[1], ret.args[2], ret.args[3])
          IN IF want.violation
               THEN ret.err.kind = "JurisdictionalViolation" /\ ret.proof = <<>>
               ELSE /\ ret.err = NilError
                    /\ Len(ret.proof) = 1
                    /\ ret.proof[1].Allowed = want.allowed
                    /\ ret.proof[1].Reason = want.reason
                    /\ ret.proof[1].ArtifactID = ret.args[1]
                    /\ ret.proof[1].SourceDomainID = ret.args[2]
                    /\ ret.proof[1].TargetDomainID = ret.args[3]
  /\ ret.op = "EnforceBoundary"
       => LET want == CheckContract(ret.args[1], ret.args[2], ret.args[3])
          IN /\ ret.err = NilError <=> (~want.violation /\ want.allowed)
             /\ ret.err # NilError => ret.err.kind = "JurisdictionalViolation"

\* CheckBoundary returned the allowed proof of a stored rule for an artifact
\* with two bindings, and the registries hold the denial cases too (the same
\* artifact towards itself has no rule).
C21_Witness ==
  /\ ret.op = "CheckBoundary"
  /\ ret.err = NilError
  /\ ret.proof[1].Allowed
  /\ ret.proof[1].Reason = "policy"
  /\ Len(BindingsOf("m")) = 2
  /\ ~CheckContract("m", "d1", "d1").violation
  /\ ~CheckContract("m", "d1", "d1").allowed
  /\ CheckContract("m", "d2", "d1").violation

\* C22: CheckBoundary and EnforceBoundaryWithAllChecks never return a proof
\* with allowed=true when the source domain's or the target domain's
\* jurisdiction_id is not a registered jurisdiction, even if a Boundary entry
\* exists for that pair of ids.
C22_DomainJurisdictionsRegistered ==
  (/\ ret.op \in {"CheckBoundary", "EnforceBoundaryWithAllChecks"}
   /\ ret.err = NilError
   /\ Len(ret.proof) = 1
   /\ ret.proof[1].Allowed)
    => /\ ExecutionDomains[ret.args[2]].JurisdictionID \in Jurisdictions
       /\ ExecutionDomains[ret.args[3]].JurisdictionID \in Jurisdictions

\* C23: IsValidAt(t) is true iff (valid_from is unset or t >= valid_from) and
\* (valid_until is unset or t <= valid_until), for every combination of set
\* and unset bounds, including valid_from > valid_until.
C23_ValidityWindow ==
  ret.op = "IsValidAt"
    => ret.result =
         (/\ \A f \in Timestamps : ret.tb.ValidFrom = <<f>> => ret.timestamp >= f
          /\ \A u \in Timestamps : ret.tb.ValidUntil = <<u>> => ret.timestamp <= u)

\* IsValidAt returned false at a timestamp between the bounds of an empty
\* window (valid_from > valid_until).
C23_Witness ==
  /\ ret.op = "IsValidAt"
  /\ ret.tb.ValidFrom = <<2>>
  /\ ret.tb.ValidUntil = <<0>>
  /\ ret.timestamp = 1
  /\ ~ret.result

\* C24: for any temporal boundary with valid_until = u, IsValidAt(u) is true
\* and IsValidAt(u+1) is false, whatever its valid_from is.
C24_ExpiryEdgeAnyFrom ==
  (/\ ret.op = "IsValidAt"
   /\ ret.tb.ValidUntil = <<ret.timestamp>>)
    => ret.result /\ ~ret.next

\* C24, amended: for a temporal boundary with valid_until = u below the
\* greatest integer and with valid_from unset or at most u, IsValidAt(u) is
\* true and IsValidAt(u+1) is false; with valid_from above u both are false.
C24_ExpiryEdge ==
  (/\ ret.op = "IsValidAt"
   /\ ret.tb.ValidUntil = <<ret.timestamp>>
   /\ ret.timestamp < MaxInt)
    => IF ret.tb.ValidFrom = <<>> \/ ret.tb.ValidFrom[1] <= ret.timestamp
         THEN ret.result /\ ~ret.next
         ELSE ~ret.result /\ ~ret.next

\* IsValidAt was called at the expiry of a window that opens before it.
C24_Witness ==
  /\ ret.op = "IsValidAt"
  /\ ret.tb.ValidFrom = <<0>>
  /\ ret.tb.ValidUntil = <<2>>
  /\ ret.timestamp = 2
  /\ ret.result
  /\ ~ret.next

\* C25: a GracePeriodManager constructed with default_grace g considers t
\* inside grace iff valid_until - g <= t <= valid_until (never when
\* valid_until is unset), for every integer g passed to the constructor
\* including 0 and negative values; GetRemainingTime is
\* max(0, valid_until - t), or -1 when valid_until is unset.
C25_GraceWindow ==
  ret.op = "GracePeriod"
    => IF ret.tb.ValidUntil = <<>>
         THEN ~ret.result /\ ret.remaining = -1
         ELSE LET u == ret.tb.ValidUntil[1]
              IN /\ ret.result = (u - ret.g <= ret.timestamp /\ ret.timestamp <= u)
                 /\ ret.remaining = (IF u - ret.timestamp > 0 THEN u - ret.timestamp ELSE 0)

\* C26: IsRevoked(b, t) is true iff a revocation time r is recorded for b and
\* r <= t; it is false for a binding never revoked and for every t earlier
\* than the recorded revocation time.
C26_RevokedIffRecordedBefore ==
  ret.op = "IsRevoked"
    => /\ ret.result = (\E b \in DOMAIN RevokedBindings, r \in Time :
                           b = ret.id /\ RevokedBindings[b] = r /\ r <= ret.timestamp)
       /\ (\A b \in DOMAIN RevokedBindings : b # ret.id) => ~ret.result
       /\ (\E b \in DOMAIN RevokedBindings :
              b = ret.id /\ ret.timestamp < RevokedBindings[b]) => ~ret.result

\* A query for the second before the recorded revocation time returned false
\* while a query at the revocation time gives true.
C26_Witness ==
  /\ ret.op = "IsRevoked"
  /\ ret.id \in DOMAIN RevokedBindings
  /\ RevokedBindings[ret.id] = 2
  /\ ret.timestamp = 1
  /\ ~ret.result
  /\ IsRevoked(ret.id, 2)

\* C27: for a fixed binding id b and decision timestamp t, once IsRevoked(b, t)
\* is true it is true after every later RevokeBinding call, including a
\* second RevokeBinding of b with a later timestamp.
C27_RevocationStable ==
  [][ \A b \in RevocationIDs, t \in QueryTimes :
         IsRevoked(b, t) => IsRevoked(b, t)' ]_vars

\* The nodes reached from a node along parent-to-child edges in at most k
\* steps and at least one.
RECURSIVE Descendants(_, _, _)
Descendants(edges, n, k) ==
  IF k = 0 THEN {}
  ELSE LET children == IF n \in DOMAIN edges
                         THEN { edges[n][i] : i \in 1..Len(edges[n]) } ELSE {}
       IN children \cup UNION { Descendants(edges, c, k - 1) : c \in children }

\* No node reaches itself along the parent-to-child edges.
NoDirectedCycle(edges) ==
  \A n \in NodeIDs : n \notin Descendants(edges, n, Cardinality(NodeIDs))

\* C28: the provenance graph stays acyclic under any sequence of AddNode
\* calls in which every parent id of the added node is the id of a node added
\* earlier: after each such call ValidateAcyclicity returns true and the
\* parent-to-child edges contain no directed cycle, also when an added node
\* reuses the id of an earlier node.
C28_GraphStaysAcyclic ==
  ret.op = "AddNode" => ret.valid /\ NoDirectedCycle(Edges)

\* The reader/writer lock of the component that owns a structure.  The
\* revocation set has no lock of its own; the lock of the enforcer that owns
\* it is taken for it.
ComponentLock(structure) ==
  CASE structure = "registries"  -> "be.mu"
    [] structure = "revocations" -> "rge.mutex"
    [] structure = "temporal"    -> "tbm.mutex"
    [] structure = "merkle"      -> "mt.mu"
    [] structure = "decisionlog" -> "dbe.mutex"

\* C29: no write to the enforcer registries, the revocation set, the temporal
\* boundary map, the Merkle tree or the decision log overlaps another read or
\* write of the same structure; every write holds that component's exclusive
\* lock and every read at least its shared lock, including the reads made
\* inside EnforceBoundaryWithAllChecks and the calls RevokeBinding, IsRevoked
\* and GetProof.
C29_AccessesUnderLock ==
  /\ \A th \in Threads, u \in Threads :
        (/\ th # u
         /\ calls[th].pc > 0
         /\ calls[u].pc > 0
         /\ CurrentAccess(th).structure = CurrentAccess(u).structure)
          => (CurrentAccess(th).mode = "r" /\ CurrentAccess(u).mode = "r")
  /\ \A th \in Threads :
        calls[th].pc > 0
          => LET a == CurrentAccess(th)
             IN IF a.mode = "w"
                  THEN <<ComponentLock(a.structure), "w">> \in a.locks
                  ELSE \E m \in {"r", "w"} : <<ComponentLock(a.structure), m>> \in a.locks

\* C30: after MergeState the receiver holds every key of both managers, for a
\* key present in both it keeps the most recently updated value, and the
\* merged state does not depend on the direction or order of merges
\* (A.MergeState(B) and B.MergeState(A) from the same starting states give
\* equal maps; merging the same state twice changes nothing).
C30_MergeConverges ==
  ret.op = "MergeState"
    => LET mine   == ret.before[ret.receiver]
           theirs == ret.before[ret.other]
           merged == Replicas[ret.receiver]
       IN /\ DOMAIN merged.Bounds = DOMAIN mine.Bounds \cup DOMAIN theirs.Bounds
          /\ \A k \in DOMAIN mine.Bounds \cap DOMAIN theirs.Bounds :
                /\ mine.Bounds[k].updated > theirs.Bounds[k].updated
                     => merged.Bounds[k] = mine.Bounds[k]
                /\ theirs.Bounds[k].updated > mine.Bounds[k].updated
                     => merged.Bounds[k] = theirs.Bounds[k]
          /\ MergeState(mine, theirs) = MergeState(theirs, mine)
          /\ MergeState(merged, theirs) = merged


(* ------------------------------------------------------------------ *)
(* C31. The LRU cache: after any Put, Get and Clear it holds at most    *)
(* MaxSize entries; a Put of a new key into a full cache evicts the     *)
(* least recently used key and no other (Get and Put both count as a    *)
(* use); a Put of a present key replaces its value and keeps the size;  *)
(* the key map and the recency list hold the same keys.                 *)
(* ------------------------------------------------------------------ *)
\* The keys of the recency list.
ListKeys(lru) == { lru.ll[i].key : i \in 1..Len(lru.ll) }

\* The place in the recency list of a key the cache has.
Cached(lru, key) == CHOOSE i \in 1..Len(lru.ll) : lru.ll[i].key = key

\* The key of the cache used least recently, by the order of last use.
LeastRecentlyUsed(lru, uses) ==
  uses[CHOOSE i \in 1..Len(uses) :
         /\ uses[i] \in DOMAIN lru.cache
         /\ \A j \in 1..(i - 1) : uses[j] \notin DOMAIN lru.cache]

C31_CacheIsLRU ==
  /\ Size(ProofCache) <= ProofCache.MaxSize
  /\ ListKeys(ProofCache) = DOMAIN ProofCache.cache
  /\ Len(ProofCache.ll) = Cardinality(ListKeys(ProofCache))
  /\ ret.op = "Put" =>
        LET old == ret.before
            was == DOMAIN old.cache
            is == DOMAIN ProofCache.cache
        IN /\ ProofCache.ll[Cached(ProofCache, ret.key)].value = ret.value
           /\ ret.key \in was => (is = was /\ Size(ProofCache) = Size(old))
           /\ (ret.key \notin was /\ Size(old) < old.MaxSize) => is = was \cup {ret.key}
           /\ (ret.key \notin was /\ Size(old) >= old.MaxSize) =>
                 is = (was \ {LeastRecentlyUsed(old, ret.before_uses)}) \cup {ret.key}
           /\ \A k \in is \ {ret.key} :
                 ProofCache.ll[Cached(ProofCache, k)].value = old.ll[Cached(old, k)].value
  /\ ret.op = "Get" =>
        /\ DOMAIN ProofCache.cache = DOMAIN ret.before.cache
        /\ ret.result = IF ret.key \in DOMAIN ret.before.cache
                        THEN <<ret.before.ll[Cached(ret.before, ret.key)].value>>
                        ELSE <<>>
  /\ ret.op = "Clear" => Size(ProofCache) = 0 /\ DOMAIN ProofCache.cache = {}

\* A Put of a new key into a full cache of three, which had evicted a key
\* before, has just evicted the key used least recently.
C31_Witness ==
  /\ ret.op = "Put"
  /\ ret.key \notin DOMAIN ret.before.cache
  /\ Size(ret.before) = 3
  /\ ret.before.MaxSize = 3
  /\ Size(ProofCache) = 3
  /\ LeastRecentlyUsed(ret.before, ret.before_uses) \notin DOMAIN ProofCache.cache
  /\ Len(ret.before_uses) > 3


(* ------------------------------------------------------------------ *)
(* C32. The Merkle leaves count the successful binds and the proofs     *)
(* returned: a successful BindArtifactWithCrypto appends one leaf, the  *)
(* hash of the binding; a proof returned by                             *)
(* EnforceBoundaryWithAllChecks appends one leaf, the hash of the       *)
(* proof; a failed bind, a failed enforcement and every other step      *)
(* append none; leaves are never removed or reordered.                  *)
(* ------------------------------------------------------------------ *)
\* The number of bindings stored for all artifacts.
StoredBindings(store) ==
  LET RECURSIVE Count(_)
      Count(S) == IF S = {} THEN 0
                  ELSE LET a == CHOOSE x \in S : TRUE
                       IN Len(store[a]) + Count(S \ {a})
  IN Count(DOMAIN store)

\* The step is a successful bind: the store has one binding more.
BindSucceeds ==
  /\ ret'.op = "BindArtifactWithCrypto"
  /\ ret'.err = NilError
  /\ StoredBindings(BoundArtifacts') = StoredBindings(BoundArtifacts) + 1

\* The step is an enforcement that returns a proof.
ProofReturned ==
  /\ nreq' = nreq + 1
  /\ ret'.op = "EnforceBoundaryWithAllChecks"
  /\ ret'.proof # <<>>

LeafStep ==
  /\ Len(Leaves') >= Len(Leaves)
  /\ SubSeq(Leaves', 1, Len(Leaves)) = Leaves
  /\ Len(Leaves') - Len(Leaves) = IF BindSucceeds \/ ProofReturned THEN 1 ELSE 0
  /\ BindSucceeds =>
        LET stored == BoundArtifacts'[ret'.args[1]]
        IN Leaves'[Len(Leaves')] = BindingHash(stored[Len(stored)])
  /\ ProofReturned => Leaves'[Len(Leaves')] = ProofHash(ret'.proof[1])
  /\ (ret'.op = "EnforceBoundaryWithAllChecks" /\ nreq' = nreq + 1) =>
        (ret'.err = NilError <=> ret'.proof # <<>>)

C32_LeavesCountBindsAndProofs == [][LeafStep]_vars

\* Two successful binds and a returned proof: three leaves, the last one the
\* hash of the proof.
C32_Witness ==
  /\ ret.op = "EnforceBoundaryWithAllChecks"
  /\ ret.proof # <<>>
  /\ StoredBindings(BoundArtifacts) = 2
  /\ Len(Leaves) = 3
  /\ Leaves[3] = ProofHash(ret.proof[1])


(* ------------------------------------------------------------------ *)
(* C33. HandleExpiry on a registered boundary whose renewal policy is   *)
(* "auto" sets valid_from to now and valid_until to now + duration,     *)
(* where duration is valid_until - valid_from, or 3600 seconds if       *)
(* either bound is unset; with another policy or an unknown id the      *)
(* boundaries are left unchanged; the registered callback, if any, is   *)
(* called once.                                                         *)
(* ------------------------------------------------------------------ *)
\* The duration of a window: 3600 seconds if either bound is unset.
DurationOf(boundary) ==
  IF boundary.ValidFrom = <<>> \/ boundary.ValidUntil = <<>> THEN 3600
  ELSE boundary.ValidUntil[1] - boundary.ValidFrom[1]

C33_AutoRenewal ==
  ret.op = "HandleExpiry" =>
    LET old == ret.before
        id == ret.id
    IN /\ (id \in DOMAIN old /\ old[id].RenewalPolicy = <<"auto">>) =>
             /\ TemporalBoundaries[id].ValidFrom = <<ret.at>>
             /\ TemporalBoundaries[id].ValidUntil = <<ret.at + DurationOf(old[id])>>
       /\ (id \notin DOMAIN old \/ old[id].RenewalPolicy # <<"auto">>) =>
             TemporalBoundaries = old
       /\ \A other \in DOMAIN old \ {id} : TemporalBoundaries[other] = old[other]
       /\ id \in DOMAIN old => ret.called = IF id \in ExpiryCallbacks THEN 1 ELSE 0


(* ------------------------------------------------------------------ *)
(* C34. TraceLineage(id) returns a list that starts with the node id,   *)
(* followed by its ancestors in depth-first order over parent ids; it   *)
(* holds each registered node reachable through parent links exactly    *)
(* once and no other node, on every graph, also one with a cycle or     *)
(* with parent ids that are not registered; it is empty for an unknown  *)
(* id.                                                                  *)
(* ------------------------------------------------------------------ *)
\* The registered nodes reached from id over at most k parent links.
RECURSIVE ReachedOver(_, _, _)
ReachedOver(nodes, id, k) ==
  IF id \notin DOMAIN nodes THEN {}
  ELSE IF k = 0 THEN {id}
  ELSE LET parents == { nodes[id].ParentNodes[i] : i \in 1..Len(nodes[id].ParentNodes) }
       IN {id} \cup UNION { ReachedOver(nodes, p, k - 1) : p \in parents }

\* Depth-first preorder with an explicit stack: the top is taken, skipped if
\* seen, else listed if registered and its parents pushed, first parent on top.
RECURSIVE StackOrder(_, _, _, _)
StackOrder(nodes, stack, seen, listed) ==
  IF stack = <<>> THEN listed
  ELSE LET top == Head(stack)
       IN IF top \in seen THEN StackOrder(nodes, Tail(stack), seen, listed)
          ELSE IF top \in DOMAIN nodes
               THEN StackOrder(nodes, nodes[top].ParentNodes \o Tail(stack),
                               seen \cup {top}, Append(listed, top))
               ELSE StackOrder(nodes, Tail(stack), seen \cup {top}, listed)

C34_LineageIsDepthFirst ==
  ret.op = "TraceLineage" =>
    LET ids == [ i \in 1..Len(ret.lineage) |-> ret.lineage[i].ID ]
    IN /\ ret.id \notin DOMAIN Nodes => ids = <<>>
       /\ ret.id \in DOMAIN Nodes => (ids # <<>> /\ ids[1] = ret.id)
       /\ { ids[i] : i \in 1..Len(ids) } = ReachedOver(Nodes, ret.id, Cardinality(NodeIDs))
       /\ \A i, j \in 1..Len(ids) : ids[i] = ids[j] => i = j
       /\ ids = StackOrder(Nodes, <<ret.id>>, {}, <<>>)
       /\ \A i \in 1..Len(ids) : ret.lineage[i] = Nodes[ids[i]]

\* A lineage of three nodes traced through a cycle: the node traced is its
\* own ancestor.
C34_Witness ==
  /\ ret.op = "TraceLineage"
  /\ Len(ret.lineage) = 3
  /\ \E i \in 2..3 : \E k \in 1..Len(ret.lineage[i].ParentNodes) :
        ret.lineage[i].ParentNodes[k] = ret.id

\* A lineage traced past a parent id that is not registered.
C34_WitnessUnregistered ==
  /\ ret.op = "TraceLineage"
  /\ Len(ret.lineage) = 2
  /\ \E k \in 1..Len(ret.lineage[1].ParentNodes) :
        ret.lineage[1].ParentNodes[k] \notin DOMAIN Nodes

(* ------------------------------------------------------------------ *)
(* C38. Every crossing (from_jid, to_jid) returned by                   *)
(* FindBoundaryCrossings(id) is a real edge of the lineage: there are   *)
(* nodes p and c in the lineage of id, p a parent of c, p in            *)
(* jurisdiction from_jid and c in jurisdiction to_jid; also for nodes   *)
(* with several parents.                                                *)
(* ------------------------------------------------------------------ *)
C38_CrossingsAreEdges ==
  ret.op = "FindBoundaryCrossings" =>
    \A x \in 1..Len(ret.crossings) :
       \E p, c \in ReachedOver(Nodes, ret.id, Cardinality(NodeIDs)) :
          /\ \E k \in 1..Len(Nodes[c].ParentNodes) : Nodes[c].ParentNodes[k] = p
          /\ Nodes[p].JurisdictionID = ret.crossings[x][1]
          /\ Nodes[c].JurisdictionID = ret.crossings[x][2]


(* ------------------------------------------------------------------ *)
(* C35. A read of the provenance graph never blocks later writes: once  *)
(* TraceLineage has returned, an AddNode that is called, and so the     *)
(* RecordDataFlow step of EnforceBoundaryWithAllChecks, eventually      *)
(* completes.                                                           *)
(* ------------------------------------------------------------------ *)
\* The thread is inside a call of one of the operations.
Inside(th, ops) == calls[th].pc > 0 /\ calls[th].op \in ops

C35_WritesFollowReads ==
  \A th \in Threads : Inside(th, {"AddNode"}) ~> (calls[th].pc = 0)

(* ------------------------------------------------------------------ *)
(* C36. CheckBoundary never deadlocks against registrations: under      *)
(* every interleaving of a CheckBoundary call with RegisterJurisdiction,*)
(* RegisterExecutionDomain, RegisterBoundary or                         *)
(* BindArtifactToJurisdiction calls waiting for the exclusive lock,     *)
(* every call eventually returns.                                       *)
(* ------------------------------------------------------------------ *)
C36_CheckBoundaryReturns ==
  \A th \in Threads :
     Inside(th, {"CheckBoundary", "RegisterBoundary"}) ~> (calls[th].pc = 0)

(* ------------------------------------------------------------------ *)
(* C37. CRDTManager.MergeState always terminates: of two managers       *)
(* merging each other at the same time both calls return, and a manager *)
(* merging itself returns.                                              *)
(* ------------------------------------------------------------------ *)
C37_MergeStateReturns ==
  \A th \in Threads :
     Inside(th, {"MergeStateAB", "MergeStateBA", "MergeStateAA"}) ~> (calls[th].pc = 0)


(* ------------------------------------------------------------------ *)
(* C39. With the built-in vote collection ProposeBoundaryDecision       *)
(* reaches quorum and returns true for every request and every peer     *)
(* list given to the constructor: an empty list, a list holding the     *)
(* node's own id, a list with repeated peer ids.                        *)
(* ------------------------------------------------------------------ *)
C39_BuiltInVotesReachQuorum ==
  ret.op = "ProposeBoundaryDecision" =>
    /\ ret.votes = collectVotes(Peers)
    /\ HasQuorum(Peers, ret.votes)
    /\ ret.result


(* ------------------------------------------------------------------ *)
(* C40. Binding ids are unique in the binding store: after any          *)
(* sequence of binds no two stored bindings share an id, also two binds *)
(* of the same artifact to the same jurisdiction within one second, so  *)
(* a revocation makes IsRevoked true for one stored binding only.       *)
(* ------------------------------------------------------------------ *)
\* The places of the binding store: an artifact id and an index in its list.
StoredPlaces ==
  UNION { { <<a, i>> : i \in 1..Len(BoundArtifacts[a]) } : a \in DOMAIN BoundArtifacts }

C40_BindingIDsUnique ==
  /\ \A p, q \in StoredPlaces :
        BoundArtifacts[p[1]][p[2]].ID = BoundArtifacts[q[1]][q[2]].ID => p = q
  /\ \A id \in DOMAIN RevokedBindings :
        Cardinality({ p \in StoredPlaces :
                        /\ BoundArtifacts[p[1]][p[2]].ID = id
                        /\ IsRevoked(BoundArtifacts[p[1]][p[2]].ID, RevokedBindings[id]) }) <= 1

====
